---- MODULE Spec2Model ----
(***************************************************************************)
(* GitLab bridge generator (src/.gitlab-bridge/generator.py).              *)
(*                                                                         *)
(* Strings whose characters the code inspects (model identities, file      *)
(* names, dictionary keys) are sequences of one-character strings; fixed   *)
(* text that is only ever copied is kept in longer chunks.                 *)
(***************************************************************************)
EXTENDS Integers, Sequences, FiniteSets, TLC

VARIABLES fcm_files, jobsDir, templatesDir, includesFile, generated_files,
          out, pc, idx, runs, now, prevJobs, prevTemplates,
          root_exists, dirs_made, exit_code

\* the generator, its files and its process
genVars == <<fcm_files, jobsDir, templatesDir, includesFile, generated_files,
             out, pc, idx, runs, now, prevJobs, prevTemplates,
             root_exists, dirs_made, exit_code>>

\* one FCMParser: the file it reads, its text, the loop of _parse
VARIABLES fcm_bytes, fcm_content, fcm_lines, lineno, current_section, fcm_data,
          parser_pc, checksum, seen

parseVars == <<fcm_bytes, fcm_content, fcm_lines, lineno, current_section, fcm_data,
               parser_pc, checksum, seen>>

\* one run of a version calculator: its environment, what git answers,
\* the files it writes, its exit status
VARIABLES ver_prog, ver_env, ver_git, ver_out, gh_out, ver_exit

verVars == <<ver_prog, ver_env, ver_git, ver_out, gh_out, ver_exit>>

\* the file operations and the runtime runners: files and directories, the
\* last call with its outputs and result, the runner's process
VARIABLES fs_files, fs_dirs, op_call, op_outputs, op_ret, run_env, env_file,
          executed, run_exit, processes

opsVars == <<fs_files, fs_dirs, op_call, op_outputs, op_ret, run_env, env_file,
             executed, run_exit, processes>>

vars == <<genVars, parseVars, verVars, opsVars>>

\* what the steps of one component leave alone
exceptGenVars == <<parseVars, verVars, opsVars>>
exceptParseVars == <<genVars, verVars, opsVars>>
exceptVerVars == <<genVars, parseVars, opsVars>>
exceptOpsVars == <<genVars, parseVars, verVars>>

\* ---------------------------------------------------------------- bounds
NumDocs == 2
MaxRuns == 2
MaxClock == 1

\* ------------------------------------------------------- string helpers
\* Python None, kept apart from every string
NoneV == <<"<None>">>

\* str(x) inside an f-string
Str(x) == IF x = NoneV THEN <<"N", "o", "n", "e">> ELSE x

\* characters in ASCII order; Ord is the position
Chars == <<"#", "-", ".", "0", "1", "2", "3", "4", "5", "6", "7", "8", "9", "_",
           "a", "b", "c", "d", "e", "f", "g", "h", "i", "j", "k", "l", "m",
           "n", "o", "p", "q", "r", "s", "t", "u", "v", "w", "x", "y", "z">>

Ord(c) == CHOOSE i \in 1..Len(Chars) : Chars[i] = c

\* s.startswith(p)
StartsWith(s, p) == Len(s) >= Len(p) /\ SubSeq(s, 1, Len(p)) = p

\* s.endswith(p)
EndsWith(s, p) == Len(s) >= Len(p) /\ SubSeq(s, Len(s) - Len(p) + 1, Len(s)) = p

\* s.split(sep) for a one-character separator: every occurrence splits
RECURSIVE SplitFrom(_, _, _, _)
SplitFrom(s, sep, i, cur) ==
    IF i > Len(s) THEN <<cur>>
    ELSE IF s[i] = sep THEN <<cur>> \o SplitFrom(s, sep, i + 1, <<>>)
    ELSE SplitFrom(s, sep, i + 1, Append(cur, s[i]))

Split(s, sep) == SplitFrom(s, sep, 1, <<>>)

\* s.replace(a, b) for one-character a and b
Replace(s, a, b) == [i \in 1..Len(s) |-> IF s[i] = a THEN b ELSE s[i]]

\* s.rfind(c), 0-based, -1 when absent
RFind(s, c) ==
    IF \E i \in 1..Len(s) : s[i] = c
    THEN (CHOOSE i \in 1..Len(s) : s[i] = c /\ \A j \in (i + 1)..Len(s) : s[j] # c) - 1
    ELSE -1

\* PurePath.suffix of a file name
Suffix(name) ==
    LET i == RFind(name, ".")
    IN  IF 0 < i /\ i < Len(name) - 1 THEN SubSeq(name, i + 1, Len(name)) ELSE <<>>

\* PurePath.with_suffix on a file name
WithSuffix(name, suffix) ==
    IF Suffix(name) = <<>> THEN name \o suffix
    ELSE SubSeq(name, 1, Len(name) - Len(Suffix(name))) \o suffix

\* string order of Python's sorted() on paths of one directory
RECURSIVE LexLess(_, _)
LexLess(a, b) ==
    IF b = <<>> THEN FALSE
    ELSE IF a = <<>> THEN TRUE
    ELSE IF a[1] = b[1] THEN LexLess(Tail(a), Tail(b))
    ELSE Ord(a[1]) < Ord(b[1])

RECURSIVE Sorted(_)
Sorted(S) ==
    IF S = {} THEN <<>>
    ELSE LET m == CHOOSE x \in S : \A y \in S \ {x} : LexLess(x, y)
         IN  <<m>> \o Sorted(S \ {m})

\* ------------------------------------------- ordered dictionaries, YAML
NoneRec == [none |-> TRUE]

IsNone(v) == "none" \in DOMAIN v

\* d[k] = v on an insertion-ordered dict kept as a sequence of <<key, value>>
DictSet(d, k, v) ==
    IF \E i \in 1..Len(d) : d[i][1] = k
    THEN [i \in 1..Len(d) |-> IF d[i][1] = k THEN <<k, v>> ELSE d[i]]
    ELSE Append(d, <<k, v>>)

\* a dict display {k1: v1, k2: v2, ...}
RECURSIVE DictFrom(_, _)
DictFrom(pairs, acc) ==
    IF pairs = <<>> THEN acc
    ELSE DictFrom(Tail(pairs), DictSet(acc, pairs[1][1], pairs[1][2]))

YmlExt == <<".", "y", "m", "l">>
SyncExt == <<".", "bridge-sync">>
OperationsYml == <<"-", "o", "p", "e", "r", "a", "t", "i", "o", "n", "s">> \o YmlExt
Unknown == <<"u", "n", "k", "n", "o", "w", "n">>

\* str.upper() on the characters of a parameter name
LowerChars == <<"a", "b", "c", "d", "e", "f", "g", "h", "i", "j", "k", "l", "m",
                "n", "o", "p", "q", "r", "s", "t", "u", "v", "w", "x", "y", "z">>
UpperChars == <<"A", "B", "C", "D", "E", "F", "G", "H", "I", "J", "K", "L", "M",
                "N", "O", "P", "Q", "R", "S", "T", "U", "V", "W", "X", "Y", "Z">>

\* the upper-case letter of every lower-case letter
ToUpper ==
    [c \in {LowerChars[k] : k \in 1..26} |->
        UpperChars[CHOOSE k \in 1..26 : LowerChars[k] = c]]

Upper(s) ==
    [i \in 1..Len(s) |-> IF s[i] \in DOMAIN ToUpper THEN ToUpper[s[i]] ELSE s[i]]

\* _write_yaml: what reaches the file, in dict order
RECURSIVE WriteYaml(_)
WriteYaml(data) ==
    IF data = <<>> THEN <<>>
    ELSE LET key == data[1][1]
             value == data[1][2]
             rest == WriteYaml(Tail(data))
         IN  IF StartsWith(key, <<"#">>) THEN <<[kind |-> "comment", text |-> key]>> \o rest
             ELSE IF key = <<>> THEN <<[kind |-> "blank"]>> \o rest
             ELSE IF IsNone(value) THEN rest
             ELSE <<[kind |-> "map", key |-> key, value |-> value]>> \o rest

\* the file system under .gitlab-ci: a directory is a function from names
Put(dir, name, content) ==
    [n \in DOMAIN dir \cup {name} |-> IF n = name THEN content ELSE dir[n]]

EmptyDir == [n \in {} |-> NoneRec]

Path(dir, name) == [dir |-> dir, name |-> name]

\* ------------------------------------------------ parsed model documents
ActionName == <<"a", "c", "t", "i", "o", "n">>
ForceName == <<"f", "o", "r", "c", "e">>
Git == <<"g", "i", "t">>
Fs == <<"f", "s">>

ChoiceParam(name, choices) ==
    [name |-> name, type |-> "choice", required |-> TRUE, choices |-> choices]

ScalarParam(name, type) ==
    [name |-> name, type |-> type, required |-> TRUE, choices |-> <<>>]

\* FCMParser.data, with the raw text the checksum is taken of
Doc(text, model, version, domain, parameters, requirements, outputs) ==
    [text |-> text, model |-> model, version |-> version, domain |-> domain,
     parameters |-> parameters, interface |-> [requirements |-> requirements],
     outputs |-> outputs]

\* documents the run may find under the source root
DocPool ==
    { Doc("t1", Git \o <<".", "b">>, <<"1">>, Git,
          <<ChoiceParam(ActionName, <<<<"c">>, <<"d">>>>)>>, <<<<"curl">>>>, <<"o">>),
      Doc("t2", Git \o <<".", "t">>, <<"1">>, Git,
          <<ScalarParam(ForceName, "boolean")>>, <<<<"jq">>>>, <<>>),
      Doc("t3", Git \o <<".", "t">>, <<"2">>, NoneV, <<>>, <<<<"jq">>>>, <<>>),
      Doc("t4", Fs \o <<".", "b">>, <<"1">>, Fs,
          <<ChoiceParam(ActionName, <<<<"c">>, <<"c">>>>)>>, <<>>, <<>>),
      Doc("t5", NoneV, NoneV, NoneV, <<>>, <<>>, <<>>),
      Doc("t6", Git, <<"1">>, Git, <<ScalarParam(ForceName, "string")>>, <<>>, <<>>),
      Doc("t7", Git \o <<".", "b", ".", "t">>, <<"1">>, Git, <<>>, <<>>, <<>>),
      Doc("t8", <<>>, NoneV, NoneV, <<>>, <<>>, <<>>),
      Doc("t9", <<"#">> \o Fs \o <<".", "c">>, <<"1">>, Fs,
          <<ChoiceParam(ActionName, <<<<"c">>, <<"d">>>>)>>, <<>>, <<>>),
      Doc("t10", Fs \o <<".">>, <<"1">>, Fs, <<>>, <<>>, <<>>) }

\* FCMParser.get_checksum: a digest of the raw text
Checksum(doc) == <<"sha256:", doc.text>>

\* the i-th file rglob yields, relative to the working directory
FcmPath(i) == <<"axioms/d", ToString(i), ".fcm">>

\* datetime.utcnow().isoformat()
IsoFormat(t) == <<ToString(t)>>

\* ------------------------------------------------------- job emission
\* next(p for p in parameters if name == 'action' and type == 'choice')
IsActionChoice(p) == p.name = ActionName /\ p.type = "choice"

HasActionParam(doc) == \E i \in 1..Len(doc.parameters) : IsActionChoice(doc.parameters[i])

ActionParam(doc) ==
    doc.parameters[CHOOSE i \in 1..Len(doc.parameters) :
        /\ IsActionChoice(doc.parameters[i])
        /\ \A j \in 1..(i - 1) : ~IsActionChoice(doc.parameters[j])]

\* job_name = model.replace('.', '-')
JobName(doc) == Replace(doc.model, ".", "-")

\* the include entry of the job definition
JobInclude(doc) ==
    [list |-> <<[local |-> <<".gitlab-ci/templates/">> \o Str(doc.domain) \o OperationsYml]>>]

\* the extends target of every job entry
JobExtends(doc) == <<".">> \o Str(doc.domain) \o <<"_operation">>

\* the head of job_def: comment keys, blank keys, include
JobHeader(doc, fcm_path, t) ==
    DictFrom(<< <<<<"#", " GENERATED FILE - DO NOT EDIT">>, NoneRec>>,
                <<<<"#", " Source: ">> \o fcm_path, NoneRec>>,
                <<<<"#", " Model: ">> \o doc.model \o <<" v">> \o Str(doc.version), NoneRec>>,
                <<<<"#", " Generated: ">> \o IsoFormat(t) \o <<"Z">>, NoneRec>>,
                <<<<>>, NoneRec>>,
                <<<<"#", " To modify this job:">>, NoneRec>>,
                <<<<"#", " 1. Edit the source FCM">>, NoneRec>>,
                <<<<"#", " 2. Run: python .gitlab-bridge/generator.py">>, NoneRec>>,
                <<<<"#", " 3. Commit both FCM and generated files">>, NoneRec>>,
                <<<<>>, NoneRec>>,
                <<<<"i", "n", "c", "l", "u", "d", "e">>, JobInclude(doc)>> >>, <<>>)

\* one job per action choice
ActionJob(doc, action) ==
    [extends |-> JobExtends(doc),
     variables |-> [OPERATION |-> action, FCM_MODEL |-> doc.model, FCM_VERSION |-> doc.version],
     rules |-> << [if |-> <<"$CI_PIPELINE_SOURCE == \"merge_request_event\"">>, when |-> "manual"],
                  [if |-> <<"$CI_COMMIT_BRANCH == $DEFAULT_BRANCH && $GIT_OPERATION == \"">>
                          \o action \o <<"\"">>] >>]

\* the single job of a model without action choices
SingleJob(doc) ==
    [extends |-> JobExtends(doc),
     variables |-> [FCM_MODEL |-> doc.model, FCM_VERSION |-> doc.version]]

\* every choice stored under the bare job name
RECURSIVE AddActionJobs_SameKey(_, _, _)
AddActionJobs_SameKey(job_def, doc, choices) ==
    IF choices = <<>> THEN job_def
    ELSE AddActionJobs_SameKey(DictSet(job_def, JobName(doc), ActionJob(doc, choices[1])),
                               doc, Tail(choices))

RECURSIVE AddActionJobs(_, _, _)
AddActionJobs(job_def, doc, choices) ==
    IF choices = <<>> THEN job_def
    ELSE AddActionJobs(DictSet(job_def, JobName(doc) \o <<"-">> \o choices[1],
                               ActionJob(doc, choices[1])),
                       doc, Tail(choices))

\* job_def as _generate_job_definition builds it
JobDef(doc, fcm_path, t) ==
    IF HasActionParam(doc)
    THEN AddActionJobs(JobHeader(doc, fcm_path, t), doc, ActionParam(doc).choices)
    ELSE DictSet(JobHeader(doc, fcm_path, t), JobName(doc), SingleJob(doc))

\* the sidecar records the Domain header where the model identity belongs
BridgeSync_WrongField(doc, fcm_path, t) ==
    [source_fcm |-> fcm_path, model |-> Str(doc.domain), version |-> doc.version,
     generated_at |-> IsoFormat(t) \o <<"Z">>,
     generator_version |-> "gitlab-bridge-1.0.0", checksum |-> Checksum(doc)]

\* bridge_sync
BridgeSync(doc, fcm_path, t) ==
    [source_fcm |-> fcm_path, model |-> doc.model, version |-> doc.version,
     generated_at |-> IsoFormat(t) \o <<"Z">>,
     generator_version |-> "gitlab-bridge-1.0.0", checksum |-> Checksum(doc)]

\* the sidecar written only where none exists
GenerateJobDefinition_KeepSidecar(w, doc, fcm_path, name, t) ==
    LET sync == WithSuffix(name, SyncExt)
        jobs1 == Put(w.jobs, name, [yaml |-> WriteYaml(JobDef(doc, fcm_path, t))])
    IN  [w EXCEPT
           !.jobs = IF sync \in DOMAIN w.jobs THEN jobs1
                    ELSE Put(jobs1, sync, [json |-> BridgeSync(doc, fcm_path, t)]),
           !.gen = w.gen \o <<Path("jobs", name), Path("jobs", sync)>>,
           !.out = Append(w.out, [ev |-> "job", path |-> Path("jobs", name)])]

\* the job file opened for append: earlier content is kept
GenerateJobDefinition_Append(w, doc, fcm_path, name, t) ==
    LET sync == WithSuffix(name, SyncExt)
        old == IF name \in DOMAIN w.jobs THEN w.jobs[name].yaml ELSE <<>>
    IN  [w EXCEPT
           !.jobs = Put(Put(w.jobs, name, [yaml |-> old \o WriteYaml(JobDef(doc, fcm_path, t))]),
                        sync, [json |-> BridgeSync(doc, fcm_path, t)]),
           !.gen = w.gen \o <<Path("jobs", name), Path("jobs", sync)>>,
           !.out = Append(w.out, [ev |-> "job", path |-> Path("jobs", name)])]

\* _generate_job_definition on the world w = [jobs, templates, gen, out]
GenerateJobDefinition(w, doc, fcm_path, name, t) ==
    LET sync == WithSuffix(name, SyncExt)
    IN  [w EXCEPT
           !.jobs = Put(Put(w.jobs, name, [yaml |-> WriteYaml(JobDef(doc, fcm_path, t))]),
                        sync, [json |-> BridgeSync(doc, fcm_path, t)]),
           !.gen = w.gen \o <<Path("jobs", name), Path("jobs", sync)>>,
           !.out = Append(w.out, [ev |-> "job", path |-> Path("jobs", name)])]

\* --------------------------------------------------- template emission
\* the NUL character, which no file name may hold
Nul == "\\0"

\* the file system calls raise ValueError (embedded null byte) on the name
HasNul(name) == \E i \in 1..Len(name) : name[i] = Nul

\* an existence check for every entry, the empty ones too
RECURSIVE RequirementChecks_EveryEntry(_)
RequirementChecks_EveryEntry(requirements) ==
    IF requirements = <<>> THEN <<>>
    ELSE << <<"which ">> \o requirements[1] \o <<" || (echo \"">> \o requirements[1]
            \o <<" not found, please install it\"; exit 1)">> >>
         \o RequirementChecks_EveryEntry(Tail(requirements))

RECURSIVE RequirementChecks(_)
RequirementChecks(requirements) ==
    IF requirements = <<>> THEN <<>>
    ELSE (IF requirements[1] # <<>>
          THEN << <<"which ">> \o requirements[1] \o <<" || (echo \"">> \o requirements[1]
                  \o <<" not found, please install it\"; exit 1)">> >>
          ELSE <<>>)
         \o RequirementChecks(Tail(requirements))

GitSetup ==
    << <<"git config --global user.email">>, <<"git config --global user.name">>,
       <<"git config --global init.defaultBranch main">>,
       <<"git remote set-url origin">> >>

BeforeScript(doc, domain) ==
    << <<"which python3 || (echo \"Python3 not found\"; exit 1)">> >>
    \o RequirementChecks(doc.interface.requirements)
    \o (IF domain = Git THEN GitSetup ELSE <<>>)
    \o << <<"pip3 install --user -r scripts/requirements.txt">>,
          <<"export PATH=\"$HOME/.local/bin:$PATH\"">> >>

RECURSIVE TemplateVariables(_, _)
TemplateVariables(parameters, acc) ==
    IF parameters = <<>> THEN acc
    ELSE LET param == parameters[1]
             value == IF param.type = "boolean" THEN <<"false">>
                      ELSE IF param.type = "choice" THEN param.choices[1]
                      ELSE <<>>
         IN  TemplateVariables(Tail(parameters), DictSet(acc, Upper(param.name), value))

OperationBaseKey(domain) == <<".">> \o domain \o <<"_operation_base">>

OperationKey(domain) == <<".">> \o domain \o <<"_operation">>

\* the artifacts block whatever the outputs
OperationTemplate_AlwaysArtifacts(doc, domain) ==
    [extends |-> OperationBaseKey(domain),
     variables |-> TemplateVariables(doc.parameters, <<>>),
     script |-> << <<"python3 scripts/">> \o domain \o <<"_operations.py">> >>,
     artifacts |-> [reports |-> [dotenv |-> "operation_outputs.env"],
                    expire_in |-> "1 hour"]]

OperationTemplate(doc, domain) ==
    LET base == [extends |-> OperationBaseKey(domain),
                 variables |-> TemplateVariables(doc.parameters, <<>>),
                 script |-> << <<"python3 scripts/">> \o domain \o <<"_operations.py">> >>]
    IN  IF doc.outputs # <<>>
        THEN [extends |-> base.extends, variables |-> base.variables, script |-> base.script,
              artifacts |-> [reports |-> [dotenv |-> "operation_outputs.env"],
                             expire_in |-> "1 hour"]]
        ELSE base

\* template as _generate_template builds it
TemplateDef(doc, domain, t) ==
    DictSet(
      DictFrom(<< <<<<"#", " GENERATED FILE - DO NOT EDIT">>, NoneRec>>,
                  <<<<"#", " Domain: ">> \o domain, NoneRec>>,
                  <<<<"#", " Generated: ">> \o IsoFormat(t) \o <<"Z">>, NoneRec>>,
                  <<<<>>, NoneRec>>,
                  <<OperationBaseKey(domain),
                    [stage |-> "build", tags |-> <<"shell">>,
                     variables |-> [GIT_STRATEGY |-> "clone", GIT_DEPTH |-> "0"],
                     before_script |-> BeforeScript(doc, domain)]>> >>, <<>>),
      OperationKey(domain), OperationTemplate(doc, domain))

\* no existence check: every model with parameters rewrites the template
GenerateTemplate_Always(w, doc, name, domain, t) ==
    [w EXCEPT
       !.templates = Put(w.templates, name, [yaml |-> WriteYaml(TemplateDef(doc, domain, t))]),
       !.gen = Append(w.gen, Path("templates", name)),
       !.out = Append(w.out, [ev |-> "template", path |-> Path("templates", name)])]

\* _generate_template: nothing is written when the file exists; _write_yaml
\* raises on a name no file can have, before it writes
GenerateTemplate(w, doc, name, domain, t) ==
    IF name \in DOMAIN w.templates
    THEN [w EXCEPT !.out = Append(w.out, [ev |-> "template exists", path |-> Path("templates", name)])]
    ELSE IF HasNul(name)
    THEN [w EXCEPT !.raised = TRUE]
    ELSE [w EXCEPT
            !.templates = Put(w.templates, name, [yaml |-> WriteYaml(TemplateDef(doc, domain, t))]),
            !.gen = Append(w.gen, Path("templates", name)),
            !.out = Append(w.out, [ev |-> "template", path |-> Path("templates", name)])]

\* ------------------------------------------------------------- routing
ModelParts(doc) == Split(doc.model, ".")

RouteDomain(doc) == ModelParts(doc)[1]

\* the last segment taken for the capability
RouteCapability_Last(doc) ==
    IF Len(ModelParts(doc)) > 1 THEN ModelParts(doc)[Len(ModelParts(doc))] ELSE Unknown

RouteCapability(doc) == IF Len(ModelParts(doc)) > 1 THEN ModelParts(doc)[2] ELSE Unknown

JobFile(capability) == capability \o YmlExt

TemplateFile(domain) == domain \o OperationsYml

\* None has no split(), and no job file can be opened for a capability
\* that holds a NUL: generate_from_fcm raises before it writes anything
Raises(doc) == doc.model = NoneV \/ HasNul(RouteCapability(doc))

\* the template keyed by capability where the domain belongs
GenerateFromFcm_TemplatePerCapability(w, doc, fcm_path, t) ==
    LET w1 == GenerateJobDefinition(w, doc, fcm_path, JobFile(RouteCapability(doc)), t)
    IN  IF doc.parameters # <<>>
        THEN GenerateTemplate(w1, doc, TemplateFile(RouteCapability(doc)), RouteDomain(doc), t)
        ELSE w1

\* the job file keyed by capability and version
GenerateFromFcm_Versioned(w, doc, fcm_path, t) ==
    LET w1 == GenerateJobDefinition(w, doc, fcm_path,
                                    JobFile(RouteCapability(doc) \o <<"-">> \o Str(doc.version)), t)
    IN  IF doc.parameters # <<>>
        THEN GenerateTemplate(w1, doc, TemplateFile(RouteDomain(doc)), RouteDomain(doc), t)
        ELSE w1

\* template emission attempted for every model
GenerateFromFcm_AlwaysTemplate(w, doc, fcm_path, t) ==
    GenerateTemplate(GenerateJobDefinition(w, doc, fcm_path, JobFile(RouteCapability(doc)), t),
                     doc, TemplateFile(RouteDomain(doc)), RouteDomain(doc), t)

\* generate_from_fcm, for a document that does not raise
GenerateFromFcm(w, doc, fcm_path, t) ==
    LET w1 == GenerateJobDefinition(w, doc, fcm_path, JobFile(RouteCapability(doc)), t)
    IN  IF doc.parameters # <<>>
        THEN GenerateTemplate(w1, doc, TemplateFile(RouteDomain(doc)), RouteDomain(doc), t)
        ELSE w1

\* ------------------------------------------------------ master include
\* every file of the directory: the .yml files, then the others
RECURSIVE Listed(_)
Listed(S) ==
    IF S = {} THEN <<>>
    ELSE LET m == CHOOSE x \in S : TRUE
         IN  <<m>> \o Listed(S \ {m})

GlobYml_All(dir) ==
    Sorted({n \in DOMAIN dir : EndsWith(n, YmlExt)})
    \o Listed({n \in DOMAIN dir : ~EndsWith(n, YmlExt)})

\* sorted(dir.glob("*.yml"))
GlobYml(dir) == Sorted({n \in DOMAIN dir : EndsWith(n, YmlExt)})

\* jobs listed before templates
IncludeList_JobsFirst(templates, jobs) ==
    [i \in 1..Len(GlobYml(jobs)) |->
        [local |-> <<".gitlab-ci/jobs/">> \o GlobYml(jobs)[i]]]
    \o [i \in 1..Len(GlobYml(templates)) |->
        [local |-> <<".gitlab-ci/templates/">> \o GlobYml(templates)[i]]]

IncludeList(templates, jobs) ==
    [i \in 1..Len(GlobYml(templates)) |->
        [local |-> <<".gitlab-ci/templates/">> \o GlobYml(templates)[i]]]
    \o [i \in 1..Len(GlobYml(jobs)) |->
        [local |-> <<".gitlab-ci/jobs/">> \o GlobYml(jobs)[i]]]

IncludesDef(templates, jobs, t) ==
    DictFrom(<< <<<<"#", " GENERATED FILE - DO NOT EDIT">>, NoneRec>>,
                <<<<"#", " Master include file for all GitLab CI templates">>, NoneRec>>,
                <<<<"#", " Generated: ">> \o IsoFormat(t) \o <<"Z">>, NoneRec>>,
                <<<<>>, NoneRec>>,
                <<<<"i", "n", "c", "l", "u", "d", "e">>,
                  [list |-> IncludeList(templates, jobs)]>> >>, <<>>)

IncludesPath == Path(".", <<"i", "n", "c", "l", "u", "d", "e", "s">> \o YmlExt)

\* ------------------------------------------------------- initial state
\* what an earlier run left behind: the artifacts of a document that has
\* since been removed from the source root
\* the source root main looks for
RootPath == <<"github.toolkit/axioms">>

\* exit status of a process that has not exited
Running == -1

\* no parser under observation
ParserOff ==
    /\ fcm_bytes = <<>>
    /\ fcm_content = NoneV
    /\ fcm_lines = <<>>
    /\ lineno = 0
    /\ current_section = NoneV
    /\ fcm_data = NoneRec
    /\ parser_pc = "off"
    /\ checksum = NoneV
    /\ seen = <<>>

\* no generator under observation
GeneratorOff ==
    /\ fcm_files = <<>>
    /\ jobsDir = EmptyDir
    /\ templatesDir = EmptyDir
    /\ includesFile = NoneRec
    /\ generated_files = <<>>
    /\ out = <<>>
    /\ pc = "off"
    /\ idx = 1
    /\ runs = 0
    /\ now = 0
    /\ prevJobs = EmptyDir
    /\ prevTemplates = EmptyDir
    /\ root_exists = TRUE
    /\ dirs_made = FALSE
    /\ exit_code = Running

\* no version calculator under observation
VersionOff ==
    /\ ver_prog = "none"
    /\ ver_env = NoneRec
    /\ ver_git = NoneRec
    /\ ver_out = NoneRec
    /\ gh_out = <<>>
    /\ ver_exit = Running

\* no file operation and no runner under observation
OpsOff ==
    /\ fs_files = EmptyDir
    /\ fs_dirs = {}
    /\ op_call = NoneRec
    /\ op_outputs = EmptyDir
    /\ op_ret = NoneRec
    /\ run_env = NoneRec
    /\ env_file = NoneRec
    /\ executed = <<>>
    /\ run_exit = Running
    /\ processes = 0

OldDoc ==
    Doc("t0", Git \o <<".", "a">>, <<"0">>, Git,
        <<ChoiceParam(ActionName, <<<<"x">>>>)>>, <<<<"wget">>>>, <<>>)

OldWorld ==
    GenerateFromFcm([jobs |-> EmptyDir, templates |-> EmptyDir, gen |-> <<>>, out |-> <<>>,
                     raised |-> FALSE],
                    OldDoc, <<"axioms/old.fcm">>, 0)

Init ==
    /\ fcm_files \in [1..NumDocs -> DocPool]
    /\ jobsDir \in {EmptyDir, OldWorld.jobs}
    /\ templatesDir \in {EmptyDir, OldWorld.templates}
    /\ includesFile = IF jobsDir = EmptyDir /\ templatesDir = EmptyDir
                      THEN NoneRec
                      ELSE [yaml |-> WriteYaml(IncludesDef(OldWorld.templates, OldWorld.jobs, 0))]
    /\ generated_files = <<>>
    /\ out = <<>>
    /\ pc = "idle"
    /\ idx = 1
    /\ runs = 0
    /\ now = 0
    /\ prevJobs = jobsDir
    /\ prevTemplates = templatesDir
    /\ root_exists \in BOOLEAN
    /\ dirs_made = FALSE
    /\ exit_code = Running
    /\ ParserOff /\ VersionOff /\ OpsOff

\* ------------------------------------------------------------- actions
\* main when github.toolkit/axioms is missing: two messages and sys.exit(1)
AbortNoRoot ==
    /\ pc = "idle"
    /\ ~root_exists
    /\ out' = <<[ev |-> "error", path |-> RootPath]>>
    /\ exit_code' = 1
    /\ UNCHANGED <<fcm_files, jobsDir, templatesDir, includesFile, generated_files,
                   pc, idx, runs, now, prevJobs, prevTemplates, root_exists, dirs_made>>
    /\ UNCHANGED exceptGenVars

\* main without the test of the source root
StartRun_NoRootCheck ==
    /\ pc = "idle"
    /\ runs < MaxRuns
    /\ pc' = "loop"
    /\ idx' = 1
    /\ generated_files' = <<>>
    /\ out' = <<[ev |-> "found", path |-> <<ToString(Len(fcm_files))>>]>>
    /\ prevJobs' = jobsDir
    /\ prevTemplates' = templatesDir
    /\ dirs_made' = TRUE
    /\ exit_code' = Running
    /\ UNCHANGED <<fcm_files, jobsDir, templatesDir, includesFile, runs, now, root_exists>>
    /\ UNCHANGED exceptGenVars

\* main + generate_all up to the loop: a fresh generator, the output
\* directories, the document list
StartRun ==
    /\ pc = "idle"
    /\ root_exists
    /\ runs < MaxRuns
    /\ pc' = "loop"
    /\ idx' = 1
    /\ generated_files' = <<>>
    /\ out' = <<[ev |-> "found", path |-> <<ToString(Len(fcm_files))>>]>>
    /\ prevJobs' = jobsDir
    /\ prevTemplates' = templatesDir
    /\ dirs_made' = TRUE
    /\ exit_code' = Running
    /\ UNCHANGED <<fcm_files, jobsDir, templatesDir, includesFile, runs, now, root_exists>>
    /\ UNCHANGED exceptGenVars

\* break where the loop has continue: an error ends the loop
ProcessFile_Break ==
    /\ pc = "loop"
    /\ idx <= Len(fcm_files)
    /\ LET doc == fcm_files[idx]
           w0 == [jobs |-> jobsDir, templates |-> templatesDir, gen |-> generated_files,
                  out |-> Append(out, [ev |-> "processing", path |-> FcmPath(idx)]),
                  raised |-> FALSE]
           w1 == IF Raises(doc) THEN [w0 EXCEPT !.raised = TRUE]
                 ELSE GenerateFromFcm(w0, doc, FcmPath(idx), now)
           w == IF w1.raised
                THEN [w1 EXCEPT !.out = Append(w1.out, [ev |-> "error", path |-> FcmPath(idx)])]
                ELSE w1
       IN  /\ jobsDir' = w.jobs
           /\ templatesDir' = w.templates
           /\ generated_files' = w.gen
           /\ out' = w.out
           /\ idx' = IF w.raised THEN Len(fcm_files) + 1 ELSE idx + 1
    /\ UNCHANGED <<fcm_files, includesFile, pc, runs, now, prevJobs, prevTemplates,
                   root_exists, dirs_made, exit_code>>
    /\ UNCHANGED exceptGenVars

\* a failed document leaves the output directories as they were
ProcessFile_Rollback ==
    /\ pc = "loop"
    /\ idx <= Len(fcm_files)
    /\ LET doc == fcm_files[idx]
           w0 == [jobs |-> jobsDir, templates |-> templatesDir, gen |-> generated_files,
                  out |-> Append(out, [ev |-> "processing", path |-> FcmPath(idx)]),
                  raised |-> FALSE]
           w1 == IF Raises(doc) THEN [w0 EXCEPT !.raised = TRUE]
                 ELSE GenerateFromFcm(w0, doc, FcmPath(idx), now)
           w == IF w1.raised
                THEN [w0 EXCEPT !.out = Append(w1.out, [ev |-> "error", path |-> FcmPath(idx)])]
                ELSE w1
       IN  /\ jobsDir' = w.jobs
           /\ templatesDir' = w.templates
           /\ generated_files' = w.gen
           /\ out' = w.out
    /\ idx' = idx + 1
    /\ UNCHANGED <<fcm_files, includesFile, pc, runs, now, prevJobs, prevTemplates,
                   root_exists, dirs_made, exit_code>>
    /\ UNCHANGED exceptGenVars

\* one iteration of the loop of generate_all
ProcessFile ==
    /\ pc = "loop"
    /\ idx <= Len(fcm_files)
    /\ LET doc == fcm_files[idx]
           w0 == [jobs |-> jobsDir, templates |-> templatesDir, gen |-> generated_files,
                  out |-> Append(out, [ev |-> "processing", path |-> FcmPath(idx)]),
                  raised |-> FALSE]
           w1 == IF Raises(doc) THEN [w0 EXCEPT !.raised = TRUE]
                 ELSE GenerateFromFcm(w0, doc, FcmPath(idx), now)
           w == IF w1.raised
                THEN [w1 EXCEPT !.out = Append(w1.out, [ev |-> "error", path |-> FcmPath(idx)])]
                ELSE w1
       IN  /\ jobsDir' = w.jobs
           /\ templatesDir' = w.templates
           /\ generated_files' = w.gen
           /\ out' = w.out
    /\ idx' = idx + 1
    /\ UNCHANGED <<fcm_files, includesFile, pc, runs, now, prevJobs, prevTemplates,
                   root_exists, dirs_made, exit_code>>
    /\ UNCHANGED exceptGenVars

\* _generate_master_include and the end of generate_all
GenerateMasterInclude ==
    /\ pc = "loop"
    /\ idx > Len(fcm_files)
    /\ includesFile' = [yaml |-> WriteYaml(IncludesDef(templatesDir, jobsDir, now))]
    /\ generated_files' = Append(generated_files, IncludesPath)
    /\ out' = Append(out, [ev |-> "master include", path |-> IncludesPath])
    /\ pc' = "idle"
    /\ runs' = runs + 1
    /\ exit_code' = 0
    /\ UNCHANGED <<fcm_files, jobsDir, templatesDir, idx, now, prevJobs, prevTemplates,
                   root_exists, dirs_made>>
    /\ UNCHANGED exceptGenVars

\* the clock datetime.utcnow() reads
Tick ==
    /\ now < MaxClock
    /\ now' = now + 1
    /\ UNCHANGED <<fcm_files, jobsDir, templatesDir, includesFile, generated_files,
                   out, pc, idx, runs, prevJobs, prevTemplates,
                   root_exists, dirs_made, exit_code>>
    /\ UNCHANGED exceptGenVars

Next == AbortNoRoot \/ StartRun \/ ProcessFile \/ GenerateMasterInclude \/ Tick

Spec == Init /\ [][Next]_vars

\* -------------------------------------------------- reading the output
IsYml(n) == EndsWith(n, YmlExt)

JobFiles == {n \in DOMAIN jobsDir : IsYml(n)}

\* the job entries of a written fragment: mappings that extend something
JobEntries(yaml) ==
    SelectSeq(yaml, LAMBDA it : it.kind = "map" /\ "extends" \in DOMAIN it.value)

HasFirstDot(s) == \E i \in 1..Len(s) : s[i] = "."

FirstDot(s) == CHOOSE i \in 1..Len(s) : s[i] = "." /\ \A j \in 1..(i - 1) : s[j] # "."

TextBeforeFirstDot(s) == IF HasFirstDot(s) THEN SubSeq(s, 1, FirstDot(s) - 1) ELSE s

TextAfterFirstDot(s) == SubSeq(s, FirstDot(s) + 1, Len(s))

Range(f) == {f[i] : i \in DOMAIN f}

\* the step just taken is the loop iteration for a document that did not raise
Processed == pc = "loop" /\ idx <= Len(fcm_files) /\ idx' = idx + 1 /\ ~Raises(fcm_files[idx])

SelectorRule(action) ==
    [if |-> <<"$CI_COMMIT_BRANCH == $DEFAULT_BRANCH && $GIT_OPERATION == \"">>
            \o action \o <<"\"">>]

\* the fragment written for the document of the step just taken
WrittenJob == jobsDir'[generated_files'[Len(generated_files) + 1].name].yaml

\* ------------------------------------------------------------ claim C1
\* C1 as stated: a model with an action choice parameter of N alternatives
\* gets exactly N job entries, one per alternative, each with its own
\* operation-selector rule; a model without one gets exactly one job entry
\* with no rules.
C1_FanOutCount ==
    [][Processed =>
        LET doc == fcm_files[idx]
            entries == JobEntries(WrittenJob)
        IN  IF HasActionParam(doc)
            THEN /\ Len(entries) = Len(ActionParam(doc).choices)
                 /\ \A i \in 1..Len(entries) :
                      /\ entries[i].value.variables.OPERATION = ActionParam(doc).choices[i]
                      /\ entries[i].value.rules[2] = SelectorRule(ActionParam(doc).choices[i])
            ELSE /\ Len(entries) = 1
                 /\ "rules" \notin DOMAIN entries[1].value]_vars

\* C1 amended: the fragment holds one job entry per distinct alternative,
\* keyed <job name>-<alternative> and carrying that alternative's
\* operation-selector rule, or a single entry keyed <job name> without rules
\* when there is no action choice parameter; an entry whose key is empty or
\* starts with '#' is not written as an entry.
C1_FanOutDistinct ==
    [][Processed =>
        LET doc == fcm_files[idx]
            entries == JobEntries(WrittenJob)
            name == [i \in 1..Len(doc.model) |-> IF doc.model[i] = "." THEN "-" ELSE doc.model[i]]
            alts == IF HasActionParam(doc) THEN Range(ActionParam(doc).choices) ELSE {}
            keys == IF HasActionParam(doc) THEN {name \o <<"-">> \o a : a \in alts} ELSE {name}
            written == {k \in keys : k # <<>> /\ k[1] # "#"}
        IN  /\ {entries[i].key : i \in 1..Len(entries)} = written
            /\ Len(entries) = Cardinality(written)
            /\ \A i \in 1..Len(entries) :
                 IF HasActionParam(doc)
                 THEN \E a \in alts :
                        /\ entries[i].key = name \o <<"-">> \o a
                        /\ entries[i].value.variables.OPERATION = a
                        /\ Len(entries[i].value.rules) = 2
                        /\ entries[i].value.rules[2] = SelectorRule(a)
                 ELSE "rules" \notin DOMAIN entries[i].value]_vars

\* a fragment with two action jobs, each with rules, written in this run
C1_Witness ==
    \E n \in JobFiles :
        /\ Path("jobs", n) \in Range(generated_files)
        /\ Len(JobEntries(jobsDir[n].yaml)) = 2
        /\ \A i \in 1..2 : "rules" \in DOMAIN JobEntries(jobsDir[n].yaml)[i].value

\* ------------------------------------------------------------ claim C2
\* the documents of the run that route to the domain of document i
SameDomain(i, j) ==
    /\ ~Raises(fcm_files[i]) /\ ~Raises(fcm_files[j])
    /\ TextBeforeFirstDot(fcm_files[i].model) = TextBeforeFirstDot(fcm_files[j].model)

\* A = i is the first document of its domain, some later B = j shares it,
\* and the run began without a template for the domain
FirstOfTwo(i) ==
    /\ ~Raises(fcm_files[i])
    /\ \A k \in 1..(i - 1) : ~SameDomain(k, i)
    /\ \E j \in (i + 1)..Len(fcm_files) : SameDomain(i, j)
    /\ TextBeforeFirstDot(fcm_files[i].model) \o OperationsYml \notin DOMAIN prevTemplates

\* the template is the one document i yields, whatever the time of writing
ReflectsOnly(i) ==
    LET d == TextBeforeFirstDot(fcm_files[i].model)
        n == d \o OperationsYml
    IN  /\ n \in DOMAIN templatesDir
        /\ \E t \in 0..MaxClock :
             templatesDir[n].yaml = WriteYaml(TemplateDef(fcm_files[i], d, t))

RunDone == pc = "idle" /\ runs >= 1

\* C2 as stated: after a run over A then B sharing a domain that had no
\* template, the domain's template reflects only A.
C2_FirstWriterWins ==
    RunDone => \A i \in 1..Len(fcm_files) : FirstOfTwo(i) => ReflectsOnly(i)

\* C2 amended: the same, for an A that declares at least one parameter.
C2_FirstWithParametersWins ==
    RunDone => \A i \in 1..Len(fcm_files) :
        (FirstOfTwo(i) /\ fcm_files[i].parameters # <<>>) => ReflectsOnly(i)

\* A and B share a domain, both declare parameters, their requirements
\* differ, and the run left A's template
C2_Witness ==
    /\ RunDone
    /\ Len(fcm_files) >= 2
    /\ FirstOfTwo(1) /\ SameDomain(1, 2)
    /\ fcm_files[1].parameters # <<>> /\ fcm_files[2].parameters # <<>>
    /\ fcm_files[1].interface.requirements # fcm_files[2].interface.requirements
    /\ ReflectsOnly(1)

\* ------------------------------------------------------------ claim C3
SecondRunDone == pc = "idle" /\ runs >= 2

IsGeneratedLine(it) == it.kind = "comment" /\ StartsWith(it.text, <<"#", " Generated: ">>)

StripGenerated(yaml) == SelectSeq(yaml, LAMBDA it : ~IsGeneratedLine(it))

SidecarsDifferInTimestampOnly ==
    \A n \in DOMAIN jobsDir \cap DOMAIN prevJobs :
        "json" \in DOMAIN jobsDir[n] =>
            /\ "json" \in DOMAIN prevJobs[n]
            /\ [jobsDir[n].json EXCEPT !.generated_at = <<>>]
                 = [prevJobs[n].json EXCEPT !.generated_at = <<>>]

\* C3 as stated: a second run over the same documents leaves every job and
\* template fragment byte-identical; only the sidecars' timestamp differs.
C3_ByteIdentical ==
    SecondRunDone =>
        /\ templatesDir = prevTemplates
        /\ DOMAIN jobsDir = DOMAIN prevJobs
        /\ \A n \in JobFiles : jobsDir[n] = prevJobs[n]
        /\ SidecarsDifferInTimestampOnly

\* C3 amended: template fragments are byte-identical; job fragments are
\* identical except for their "# Generated:" comment line; sidecars are
\* identical except for their timestamp field.
C3_IdenticalButGeneratedLine ==
    SecondRunDone =>
        /\ templatesDir = prevTemplates
        /\ DOMAIN jobsDir = DOMAIN prevJobs
        /\ \A n \in JobFiles :
             /\ "yaml" \in DOMAIN prevJobs[n]
             /\ StripGenerated(jobsDir[n].yaml) = StripGenerated(prevJobs[n].yaml)
             /\ Len(jobsDir[n].yaml) = Len(prevJobs[n].yaml)
        /\ SidecarsDifferInTimestampOnly

\* a second run that rewrote a job fragment at a later clock reading
C3_Witness ==
    /\ SecondRunDone
    /\ templatesDir # EmptyDir
    /\ \E n \in JobFiles : jobsDir[n] # prevJobs[n]

\* ------------------------------------------------------------ claim C4
ProcessingEvent(i) == [ev |-> "processing", path |-> FcmPath(i)]

ErrorEvent(i) == [ev |-> "error", path |-> FcmPath(i)]

Failing == {i \in 1..Len(fcm_files) : fcm_files[i].model = NoneV}

\* C4: an exception in one document is caught and the document skipped,
\* every later document is still processed, and the manifest step runs
\* exactly once, after the loop, however many documents failed.
C4_LoopSurvivesErrors ==
    /\ pc = "loop" =>
         /\ IncludesPath \notin Range(generated_files)
         /\ \A k \in 1..Len(out) : out[k].ev # "master include"
    /\ RunDone =>
         /\ \A i \in 1..Len(fcm_files) :
              \E k \in 1..(Len(out) - 1) :
                  /\ out[k] = ProcessingEvent(i)
                  /\ IF i \in Failing THEN out[k + 1] = ErrorEvent(i)
                                      ELSE out[k + 1].ev = "job"
         /\ Cardinality({k \in 1..Len(out) : out[k].ev = "error"}) = Cardinality(Failing)
         /\ Cardinality({k \in 1..Len(generated_files) : generated_files[k].dir = "jobs"})
              = 2 * (Len(fcm_files) - Cardinality(Failing))
         /\ {k \in 1..Len(generated_files) : generated_files[k] = IncludesPath}
              = {Len(generated_files)}
         /\ {k \in 1..Len(out) : out[k].ev = "master include"} = {Len(out)}

\* the first document failed, a later one was generated, the manifest ran
C4_Witness ==
    /\ RunDone
    /\ Len(fcm_files) >= 2
    /\ 1 \in Failing
    /\ Len(fcm_files) \notin Failing
    /\ \E k \in 1..Len(out) : out[k].ev = "job"
    /\ includesFile # NoneRec

\* ------------------------------------------------------------ claim C5
\* the step just taken is template emission onto an existing file
EmissionOntoExisting ==
    /\ pc = "loop" /\ idx <= Len(fcm_files) /\ idx' = idx + 1
    /\ fcm_files[idx].model # NoneV
    /\ fcm_files[idx].parameters # <<>>
    /\ TextBeforeFirstDot(fcm_files[idx].model) \o OperationsYml \in DOMAIN templatesDir

\* C5: when a file exists at the domain's template path, emission is
\* skipped and the file is left as it was; no step alters an existing template.
C5_ExistingTemplateUntouched ==
    [][/\ \A n \in DOMAIN templatesDir :
            n \in DOMAIN templatesDir' /\ templatesDir'[n] = templatesDir[n]
       /\ EmissionOntoExisting =>
            /\ templatesDir' = templatesDir
            /\ out'[Len(out')].ev = "template exists"
            /\ \A k \in (Len(generated_files) + 1)..Len(generated_files') :
                 generated_files'[k].dir # "templates"]_vars

\* emission was skipped for a template an earlier model of this run wrote
C5_Witness ==
    \E k \in 1..Len(out) :
        /\ out[k].ev = "template exists"
        /\ out[k].path \in Range(generated_files)

\* ------------------------------------------------------------ claim C6
TemplateFiles == {n \in DOMAIN templatesDir : IsYml(n)}

ManifestList == SelectSeq(includesFile.yaml, LAMBDA it : it.kind = "map")[1].value.list

\* C6: the manifest lists every template fragment on disk, sorted by file
\* name, then every job fragment on disk, sorted by file name, whichever
\* run wrote them.
C6_ManifestFromDisk ==
    RunDone =>
        LET L == ManifestList
            nt == Cardinality(TemplateFiles)
        IN  /\ Len(L) = nt + Cardinality(JobFiles)
            /\ \A i \in 1..Len(L) :
                 IF i <= nt
                 THEN L[i].local[1] = ".gitlab-ci/templates/" /\ Tail(L[i].local) \in TemplateFiles
                 ELSE L[i].local[1] = ".gitlab-ci/jobs/" /\ Tail(L[i].local) \in JobFiles
            /\ \A i, j \in 1..Len(L) :
                 (i < j /\ (j <= nt \/ i > nt)) => LexLess(Tail(L[i].local), Tail(L[j].local))

\* a manifest over two templates and three jobs, one job left by an earlier run
C6_Witness ==
    /\ RunDone
    /\ Cardinality(TemplateFiles) >= 2
    /\ Cardinality(JobFiles) >= 3
    /\ \E n \in JobFiles : Path("jobs", n) \notin Range(generated_files)

\* ------------------------------------------------------------ claim C7
\* the job path with the .bridge-sync extension in place of its own (a name
\* that is nothing but the extension keeps it)
SidecarName(n) ==
    IF Len(n) = Len(YmlExt) THEN n \o SyncExt
    ELSE SubSeq(n, 1, Len(n) - Len(YmlExt)) \o SyncExt

\* source path and document of everything that can be on disk
Sources ==
    {<<FcmPath(i), fcm_files[i]>> : i \in 1..Len(fcm_files)} \cup {<<<<"axioms/old.fcm">>, OldDoc>>}

\* in directory dir the sidecar of fragment n records the document src, and
\* so does the fragment
MatchingSidecar(dir, n, src) ==
    /\ SidecarName(n) \in DOMAIN dir
    /\ "json" \in DOMAIN dir[SidecarName(n)]
    /\ LET sync == dir[SidecarName(n)].json
       IN  /\ sync.source_fcm = src[1]
           /\ sync.model = src[2].model
           /\ sync.version = src[2].version
           /\ sync.checksum = <<"sha256:", src[2].text>>
           /\ dir[n].yaml[2].text = <<"#", " Source: ">> \o src[1]
           /\ dir[n].yaml[3].text
                = <<"#", " Model: ">> \o src[2].model \o <<" v">> \o Str(src[2].version)

EveryJobHasSidecar(dir) ==
    \A n \in {f \in DOMAIN dir : IsYml(f)} : \E src \in Sources : MatchingSidecar(dir, n, src)

\* C7: writing a job fragment also writes its .bridge-sync sidecar with the
\* model, version and checksum of the document the fragment came from, and
\* every job fragment on disk has such a sidecar.
C7_SidecarAlongsideJob ==
    [][/\ EveryJobHasSidecar(jobsDir)
       /\ EveryJobHasSidecar(jobsDir')
       /\ Processed =>
            LET n == generated_files'[Len(generated_files) + 1].name
            IN  /\ generated_files'[Len(generated_files) + 1].dir = "jobs"
                /\ generated_files'[Len(generated_files) + 2] = Path("jobs", SidecarName(n))
                /\ MatchingSidecar(jobsDir', n, <<FcmPath(idx), fcm_files[idx]>>)]_vars

\* two fragments of this run on disk, each with its sidecar
C7_Witness ==
    /\ RunDone
    /\ EveryJobHasSidecar(jobsDir)
    /\ Cardinality({n \in JobFiles : Path("jobs", n) \in Range(generated_files)
                                     /\ Path("jobs", SidecarName(n)) \in Range(generated_files)}) >= 2

\* ------------------------------------------------------------ claim C8
IncludeItem(yaml) == SelectSeq(yaml, LAMBDA it : it.kind = "map" /\ "list" \in DOMAIN it.value)[1]

\* the model identity a fragment on disk was generated for
ModelOfJob(n) == jobsDir[SidecarName(n)].json.model

\* C8: every job fragment includes the template path routing computes from
\* its model identity, and every job entry extends the operation entry that
\* template defines.
C8_IncludeNamesDomainTemplate ==
    \A n \in JobFiles :
        LET d == TextBeforeFirstDot(ModelOfJob(n))
        IN  /\ IncludeItem(jobsDir[n].yaml).value.list
                 = <<[local |-> <<".gitlab-ci/templates/">> \o d \o OperationsYml]>>
            /\ \A i \in 1..Len(JobEntries(jobsDir[n].yaml)) :
                 JobEntries(jobsDir[n].yaml)[i].value.extends = <<".">> \o d \o <<"_operation">>

\* ------------------------------------------------------------ claim C9
WrittenJobPath == generated_files'[Len(generated_files) + 1]

\* the template path the step wrote, or found already present
UsedTemplatePath == out'[Len(out')].path

\* C9 as stated: the capability is the text after the first '.', or
\* 'unknown' without one; the domain is the text before it; the job path is
\* keyed by the capability, the template path by the domain.
C9_SplitOnFirstSeparator ==
    [][Processed =>
        LET m == fcm_files[idx].model
            capability == IF HasFirstDot(m) THEN TextAfterFirstDot(m) ELSE Unknown
        IN  /\ WrittenJobPath = Path("jobs", capability \o YmlExt)
            /\ fcm_files[idx].parameters # <<>> =>
                 UsedTemplatePath = Path("templates", TextBeforeFirstDot(m) \o OperationsYml)]_vars

\* C9 amended: the capability is the text between the first and the second
\* '.' (to the end when there is no second), or 'unknown' without any '.'.
C9_SecondSegment ==
    [][Processed =>
        LET m == fcm_files[idx].model
            capability == IF HasFirstDot(m) THEN TextBeforeFirstDot(TextAfterFirstDot(m))
                          ELSE Unknown
        IN  /\ WrittenJobPath = Path("jobs", capability \o YmlExt)
            /\ fcm_files[idx].parameters # <<>> =>
                 UsedTemplatePath = Path("templates", TextBeforeFirstDot(m) \o OperationsYml)]_vars

\* a model identity with two separators and one with none were both routed
C9_Witness ==
    /\ RunDone
    /\ \E i, j \in 1..Len(fcm_files) :
         /\ fcm_files[i].model # NoneV /\ fcm_files[j].model # NoneV
         /\ HasFirstDot(fcm_files[i].model)
         /\ HasFirstDot(TextAfterFirstDot(fcm_files[i].model))
         /\ ~HasFirstDot(fcm_files[j].model)
         /\ Path("jobs", TextBeforeFirstDot(TextAfterFirstDot(fcm_files[i].model)) \o YmlExt)
              \in Range(generated_files)
         /\ Path("jobs", Unknown \o YmlExt) \in Range(generated_files)

\* ----------------------------------------------------------- claim C10
\* a model identity of exactly two non-empty segments
ValidIdentity(m) ==
    /\ m # NoneV
    /\ HasFirstDot(m)
    /\ ~HasFirstDot(TextAfterFirstDot(m))
    /\ TextBeforeFirstDot(m) # <<>>
    /\ TextAfterFirstDot(m) # <<>>

\* the documents the current run has gone through without an error
Routed == {i \in 1..Len(fcm_files) :
             ValidIdentity(fcm_files[i].model)
             /\ \E k \in 1..Len(out) : out[k] = ProcessingEvent(i) /\ k < Len(out)}

EventAfter(i, d) == out[(CHOOSE k \in 1..Len(out) : out[k] = ProcessingEvent(i)) + d]

\* the job path document i got
JobPathOf(i) == EventAfter(i, 1).path

HasTemplatePath(i) ==
    fcm_files[i].parameters # <<>>
    /\ (CHOOSE k \in 1..Len(out) : out[k] = ProcessingEvent(i)) + 2 <= Len(out)

\* the template path document i got
TemplatePathOf(i) == EventAfter(i, 2).path

\* C10: documents with equal capability get the same job path and documents
\* with equal domain the same template path, whatever their other fields,
\* their order and the prior content of the output directory.
C10_PathsDependOnSegmentOnly ==
    \A i, j \in Routed :
        /\ TextAfterFirstDot(fcm_files[i].model) = TextAfterFirstDot(fcm_files[j].model)
             => JobPathOf(i) = JobPathOf(j)
        /\ (/\ TextBeforeFirstDot(fcm_files[i].model) = TextBeforeFirstDot(fcm_files[j].model)
            /\ HasTemplatePath(i) /\ HasTemplatePath(j))
             => TemplatePathOf(i) = TemplatePathOf(j)

\* two documents of one capability that differ in domain and other fields
\* were both routed
C10_Witness ==
    /\ RunDone
    /\ \E i, j \in Routed :
         /\ fcm_files[i] # fcm_files[j]
         /\ TextAfterFirstDot(fcm_files[i].model) = TextAfterFirstDot(fcm_files[j].model)
         /\ TextBeforeFirstDot(fcm_files[i].model) # TextBeforeFirstDot(fcm_files[j].model)

\* ----------------------------------------------------------- claim C11
\* the documents whose model field is absent (None) or empty ('')
NoModel(doc) == doc.model = NoneV \/ doc.model = <<>>

\* C11 as stated: the step that handles a document whose model is absent or
\* empty writes no job fragment, no sidecar and no template, and the loop
\* moves on to the next document.
C11_NoModelNoGeneration ==
    [][(pc = "loop" /\ idx <= Len(fcm_files) /\ NoModel(fcm_files[idx]) /\ out' # out)
         => /\ jobsDir' = jobsDir
            /\ templatesDir' = templatesDir
            /\ generated_files' = generated_files
            /\ idx' = idx + 1]_vars

\* ----------------------------------------------------------- claim C12
NoDocumentParsed(log) == \A k \in 1..Len(log) : log[k].ev # "processing"

\* C12: while the source root is absent no step creates the output
\* directories, parses a document or writes a fragment, sidecar, template or
\* manifest, and a start of main ends with exit status 1.
C12_AbortBeforeProcessing ==
    [][~root_exists =>
         /\ UNCHANGED <<jobsDir, templatesDir, includesFile, generated_files, dirs_made>>
         /\ NoDocumentParsed(out')
         /\ out' # out => exit_code' = 1]_vars

\* main has been started without the source root and has exited
C12_Witness ==
    /\ ~root_exists
    /\ exit_code = 1
    /\ out = <<[ev |-> "error", path |-> RootPath]>>
    /\ ~dirs_made

\* =====================================================================
\* FCMParser (generator.py, lines 20-130) on the text of one document
\* =====================================================================
\* characters str.strip() removes
Whitespace == {" ", "\t", "\n", "\r"}

RECURSIVE LStrip(_)
LStrip(s) == IF s # <<>> /\ s[1] \in Whitespace THEN LStrip(Tail(s)) ELSE s

RECURSIVE RStrip(_)
RStrip(s) ==
    IF s # <<>> /\ s[Len(s)] \in Whitespace THEN RStrip(SubSeq(s, 1, Len(s) - 1)) ELSE s

\* s.strip()
Strip(s) == LStrip(RStrip(s))

\* s.strip(chars)
RECURSIVE StripChars(_, _)
StripChars(s, cs) ==
    IF s # <<>> /\ s[1] \in cs THEN StripChars(Tail(s), cs)
    ELSE IF s # <<>> /\ s[Len(s)] \in cs THEN StripChars(SubSeq(s, 1, Len(s) - 1), cs)
    ELSE s

\* the lower-case letter of every upper-case letter
ToLower ==
    [c \in {UpperChars[k] : k \in 1..26} |->
        LowerChars[CHOOSE k \in 1..26 : UpperChars[k] = c]]

\* s.lower()
Lower(s) ==
    [i \in 1..Len(s) |-> IF s[i] \in DOMAIN ToLower THEN ToLower[s[i]] ELSE s[i]]

\* s.find(sub) + 1: position of the first occurrence, 0 when there is none
Find(s, sub) ==
    LET hits == {i \in 1..(Len(s) - Len(sub) + 1) : SubSeq(s, i, i + Len(sub) - 1) = sub}
    IN  IF hits = {} THEN 0 ELSE CHOOSE i \in hits : \A j \in hits : i <= j

\* sub in s
Contains(s, sub) == Find(s, sub) # 0

\* s.split(sep, 1)
SplitOnce(s, sep) ==
    LET i == Find(s, sep)
    IN  IF i = 0 THEN <<s>>
        ELSE <<SubSeq(s, 1, i - 1), SubSeq(s, i + Len(sep), Len(s))>>

\* s.replace(old, new): occurrences left to right, never overlapping
RECURSIVE ReplaceAll(_, _, _)
ReplaceAll(s, old, new) ==
    LET i == Find(s, old)
    IN  IF i = 0 THEN s
        ELSE SubSeq(s, 1, i - 1) \o new
             \o ReplaceAll(SubSeq(s, i + Len(old), Len(s)), old, new)

\* the class \w on the characters a document is written in
IsWord(c) ==
    \/ \E k \in 1..26 : LowerChars[k] = c \/ UpperChars[k] = c
    \/ c \in {"0", "1", "2", "3", "4", "5", "6", "7", "8", "9", "_"}

OptionalMarker == <<"(", "o", "p", "t", "i", "o", "n", "a", "l", ")">>

\* length of the longest run of \w characters s starts with
RECURSIVE WordRun(_)
WordRun(s) == IF s # <<>> /\ IsWord(s[1]) THEN 1 + WordRun(Tail(s)) ELSE 0

\* what (\s*\(optional\))?$ can take as the optional group: t is matched
\* by \s*\(optional\) in whole
IsMarkerTail(t) == t # <<>> /\ LStrip(t) = OptionalMarker

\* re.match(r'(\w+):\s*(.+?)(\s*\(optional\))?$', s): NoneRec or the groups.
\* \w+ and \s* are greedy; .+? takes the fewest characters after which the
\* rest is the optional group or empty. When only white space follows the
\* colon, \s* gives its last character back to .+?.
ParamMatch(s) ==
    LET n == WordRun(s)
        rest == SubSeq(s, n + 2, Len(s))
        r == IF LStrip(rest) = <<>> /\ rest # <<>> THEN <<rest[Len(rest)]>> ELSE LStrip(rest)
        ks == {k \in 1..Len(r) : k = Len(r) \/ IsMarkerTail(SubSeq(r, k + 1, Len(r)))}
        k == CHOOSE x \in ks : \A y \in ks : x <= y
    IN  IF n = 0 \/ n + 1 > Len(s) \/ s[n + 1] # ":" \/ r = <<>> THEN NoneRec
        ELSE [g1 |-> SubSeq(s, 1, n), g2 |-> SubSeq(r, 1, k),
              g3 |-> IF k = Len(r) THEN NoneV ELSE SubSeq(r, k + 1, Len(r))]

\* ------------------------------------------------------- bound (parser)
\* lines of a document
MaxLines == 4

\* open(path, 'r').read(): text mode turns "\r\n" and a lone "\r" into "\n"
ReadText(bytes) == ReplaceAll(ReplaceAll(bytes, <<"\r", "\n">>, <<"\n">>), <<"\r">>, <<"\n">>)

\* hashlib.sha256(text.encode()).hexdigest(), taken as a digest without
\* collisions: the text itself under a tag
Sha256(text) == <<"sha256:">> \o text

\* the dict _parse starts from
EmptyData ==
    [model |-> NoneV, version |-> NoneV, layer |-> NoneV, domain |-> NoneV,
     capability |-> NoneV, parameters |-> <<>>, outputs |-> <<>>, interface |-> <<>>,
     dependencies |-> <<>>, patterns |-> <<>>]

\* the five header prefixes, in the order of the elif chain
HeaderPrefixes ==
    << <<<<"M", "o", "d", "e", "l", ":">>, "model">>, <<<<"V", "e", "r", "s", "i", "o", "n", ":">>, "version">>, <<<<"L", "a", "y", "e", "r", ":">>, "layer">>,
       <<<<"D", "o", "m", "a", "i", "n", ":">>, "domain">>, <<<<"C", "a", "p", "a", "b", "i", "l", "i", "t", "y", ":">>, "capability">> >>

\* the field a line sets as a header, "" when it is no header line
HeaderField(line) ==
    LET hits == {i \in 1..Len(HeaderPrefixes) : StartsWith(line, HeaderPrefixes[i][1])}
    IN  IF hits = {} THEN "" ELSE HeaderPrefixes[CHOOSE i \in hits : \A j \in hits : i <= j][2]

ParametersName == <<"p", "a", "r", "a", "m", "e", "t", "e", "r", "s">>
OutputsName == <<"o", "u", "t", "p", "u", "t", "s">>
DependenciesName == <<"d", "e", "p", "e", "n", "d", "e", "n", "c", "i", "e", "s">>
PatternsName == <<"p", "a", "t", "t", "e", "r", "n", "s">>
InterfaceName == <<"i", "n", "t", "e", "r", "f", "a", "c", "e">>
RequirementsName == <<"r", "e", "q", "u", "i", "r", "e", "m", "e", "n", "t", "s">>
ChoiceType == <<"c", "h", "o", "i", "c", "e">>

\* a parameter bullet: NoneRec when the pattern does not match
ParseParameter(text) ==
    LET m == ParamMatch(text)
        type == Strip(m.g2)
    IN  IF IsNone(m) THEN NoneRec
        ELSE IF Contains(type, <<"|">>)
        THEN [name |-> m.g1, type |-> ChoiceType, required |-> m.g3 = NoneV,
              choices |-> Split(type, "|")]
        ELSE [name |-> m.g1, type |-> type, required |-> m.g3 = NoneV]

\* the marker left in the name
ParseDependency_KeepMarker(text) ==
    [name |-> text, optional |-> Contains(text, OptionalMarker)]

\* a dependency bullet
ParseDependency(text) ==
    IF Contains(text, OptionalMarker)
    THEN [name |-> Strip(ReplaceAll(text, OptionalMarker, <<>>)), optional |-> TRUE]
    ELSE [name |-> text, optional |-> FALSE]

\* a key: value line of the interface section
ParseInterface(line) ==
    LET parts == SplitOnce(line, <<":">>)
        key == Strip(parts[1])
        value == Strip(parts[2])
    IN  IF key = RequirementsName /\ StartsWith(value, <<"[">>)
        THEN <<key, [list |-> LET reqs == Split(StripChars(value, {"[", "]"}), ",")
                              IN  [i \in 1..Len(reqs) |-> Strip(reqs[i])]]>>
        ELSE <<key, [str |-> value]>>

\* bullets of sections without a collection kept as patterns
SectionContent_CatchAll(d, section, text) ==
    IF section = ParametersName
    THEN IF IsNone(ParseParameter(text)) THEN d
         ELSE [d EXCEPT !.parameters = Append(@, ParseParameter(text))]
    ELSE IF section = OutputsName THEN [d EXCEPT !.outputs = Append(@, text)]
    ELSE IF section = DependenciesName
    THEN [d EXCEPT !.dependencies = Append(@, ParseDependency(text))]
    ELSE [d EXCEPT !.patterns = Append(@, text)]

\* a bullet under the current section
SectionContent(d, section, text) ==
    IF section = ParametersName
    THEN IF IsNone(ParseParameter(text)) THEN d
         ELSE [d EXCEPT !.parameters = Append(@, ParseParameter(text))]
    ELSE IF section = OutputsName THEN [d EXCEPT !.outputs = Append(@, text)]
    ELSE IF section = DependenciesName
    THEN [d EXCEPT !.dependencies = Append(@, ParseDependency(text))]
    ELSE IF section = PatternsName THEN [d EXCEPT !.patterns = Append(@, text)]
    ELSE d

\* truth value of current_section
Truthy(s) == s # NoneV /\ s # <<>>

\* header lines taken as headers only before the first section header
ParseLine_HeadersOnTop(st, raw) ==
    LET line == Strip(raw)
        parts == SplitOnce(line, <<":">>)
    IN  IF line = <<>> \/ StartsWith(line, <<"#">>) THEN st
        ELSE IF HeaderField(line) # ""
        THEN IF st.section # NoneV THEN st
             ELSE [st EXCEPT !.data[HeaderField(line)] = Strip(parts[2])]
        ELSE IF EndsWith(line, <<":">>) /\ ~StartsWith(line, <<"-">>)
        THEN [st EXCEPT !.section = Lower(SubSeq(line, 1, Len(line) - 1))]
        ELSE IF Truthy(st.section) /\ StartsWith(line, <<"-">>)
        THEN [st EXCEPT !.data = SectionContent(@, st.section, Strip(Tail(line)))]
        ELSE IF st.section = InterfaceName /\ Contains(line, <<":">>)
        THEN [st EXCEPT !.data.interface =
                  DictSet(@, ParseInterface(line)[1], ParseInterface(line)[2])]
        ELSE st

\* a list item ending in ':' taken as a section header
ParseLine_BulletHeader(st, raw) ==
    LET line == Strip(raw)
        parts == SplitOnce(line, <<":">>)
    IN  IF line = <<>> \/ StartsWith(line, <<"#">>) THEN st
        ELSE IF HeaderField(line) # ""
        THEN [st EXCEPT !.data[HeaderField(line)] = Strip(parts[2])]
        ELSE IF EndsWith(line, <<":">>)
        THEN [st EXCEPT !.section = Lower(SubSeq(line, 1, Len(line) - 1))]
        ELSE IF Truthy(st.section) /\ StartsWith(line, <<"-">>)
        THEN [st EXCEPT !.data = SectionContent(@, st.section, Strip(Tail(line)))]
        ELSE IF st.section = InterfaceName /\ Contains(line, <<":">>)
        THEN [st EXCEPT !.data.interface =
                  DictSet(@, ParseInterface(line)[1], ParseInterface(line)[2])]
        ELSE st

\* one iteration of the loop of _parse on st = [data, section, error];
\* error is set where an index or an unpacking has nothing to take
ParseLine(st, raw) ==
    LET line == Strip(raw)
        parts == SplitOnce(line, <<":">>)
    IN  IF line = <<>> \/ StartsWith(line, <<"#">>) THEN st
        ELSE IF HeaderField(line) # ""
        THEN IF Len(parts) < 2 THEN [st EXCEPT !.error = TRUE]
             ELSE [st EXCEPT !.data[HeaderField(line)] = Strip(parts[2])]
        ELSE IF EndsWith(line, <<":">>) /\ ~StartsWith(line, <<"-">>)
        THEN [st EXCEPT !.section = Lower(SubSeq(line, 1, Len(line) - 1))]
        ELSE IF Truthy(st.section) /\ StartsWith(line, <<"-">>)
        THEN [st EXCEPT !.data = SectionContent(@, st.section, Strip(Tail(line)))]
        ELSE IF st.section = InterfaceName /\ Contains(line, <<":">>)
        THEN IF Len(parts) # 2 THEN [st EXCEPT !.error = TRUE]
             ELSE [st EXCEPT !.data.interface =
                       DictSet(@, ParseInterface(line)[1], ParseInterface(line)[2])]
        ELSE st

\* raw lines documents are made of
LinePool ==
    { <<"M", "o", "d", "e", "l", ":", " ", "g", "i", "t", ".", "b">>,
      <<"P", "a", "r", "a", "m", "e", "t", "e", "r", "s", ":">>,
      <<"-", " ", "a", "c", "t", "i", "o", "n", ":", " ", "c", "|", "d">>,
      <<"-", " ", "f", "o", "r", "c", "e", ":", " ", "b", "o", "o", "l", "e", "a", "n", " ", "(", "o", "p", "t", "i", "o", "n", "a", "l", ")">>,
      <<"-", " ", "x", ":", " ", "(", "o", "p", "t", "i", "o", "n", "a", "l", ")">>,
      <<"-", " ", "j", "q">>,
      <<"O", "u", "t", "p", "u", "t", "s", ":", "\r">>,
      <<"d", "e", "p", "e", "n", "d", "e", "n", "c", "i", "e", "s", ":">>,
      <<"p", "a", "t", "t", "e", "r", "n", "s", ":">>,
      <<"i", "n", "t", "e", "r", "f", "a", "c", "e", ":">> }

\* the file holding the given lines, each ended by a line feed
RECURSIVE JoinLines(_)
JoinLines(ls) == IF ls = <<>> THEN <<>> ELSE ls[1] \o <<"\n">> \o JoinLines(Tail(ls))

\* FCMParser(path) about to be constructed on a document of MaxLines lines
InitParse ==
    /\ fcm_bytes \in {JoinLines(ls) : ls \in [1..MaxLines -> LinePool]}
    /\ fcm_content = NoneV
    /\ fcm_lines = <<>>
    /\ lineno = 0
    /\ current_section = NoneV
    /\ fcm_data = NoneRec
    /\ parser_pc = "new"
    /\ checksum = NoneV
    /\ seen = <<>>
    /\ GeneratorOff /\ VersionOff /\ OpsOff

\* __init__: _read_file, then _parse up to its loop
ReadFile ==
    /\ parser_pc = "new"
    /\ LET text == ReadText(fcm_bytes)
       IN  /\ fcm_content' = text
           /\ fcm_lines' = Split(Strip(text), "\n")
    /\ fcm_data' = EmptyData
    /\ current_section' = NoneV
    /\ lineno' = 1
    /\ parser_pc' = "parse"
    /\ UNCHANGED <<fcm_bytes, checksum, seen>>
    /\ UNCHANGED exceptParseVars

\* one iteration of the loop of _parse
ParseNextLine ==
    /\ parser_pc = "parse"
    /\ lineno <= Len(fcm_lines)
    /\ LET st == ParseLine([data |-> fcm_data, section |-> current_section, error |-> FALSE],
                           fcm_lines[lineno])
       IN  /\ fcm_data' = st.data
           /\ current_section' = st.section
           /\ parser_pc' = IF st.error THEN "raised" ELSE "parse"
    /\ lineno' = lineno + 1
    /\ UNCHANGED <<fcm_bytes, fcm_content, fcm_lines, checksum, seen>>
    /\ UNCHANGED exceptParseVars

\* return data, and get_checksum as the generator calls it
ReturnData ==
    /\ parser_pc = "parse"
    /\ lineno > Len(fcm_lines)
    /\ parser_pc' = "done"
    /\ checksum' = Sha256(fcm_content)
    /\ UNCHANGED <<fcm_bytes, fcm_content, fcm_lines, lineno, current_section, fcm_data, seen>>
    /\ UNCHANGED exceptParseVars

NextParse == ReadFile \/ ParseNextLine \/ ReturnData

SpecParse == InitParse /\ [][NextParse]_vars

\* ----------------------------------------------- reading a parser step
\* the step handles the line at lineno
LineStep == parser_pc = "parse" /\ lineno <= Len(fcm_lines) /\ lineno' = lineno + 1

\* a list item, and its text after the bullet marker
IsBullet(raw) == StartsWith(Strip(raw), <<"-">>)

BulletText(raw) == Strip(Tail(Strip(raw)))

\* the optional marker occurs in t
HasMarker(t) ==
    \E i \in 1..Len(t) :
        i + Len(OptionalMarker) - 1 <= Len(t)
        /\ \A k \in 1..Len(OptionalMarker) : t[i + k - 1] = OptionalMarker[k]

\* t read left to right with every marker left out
RECURSIVE WithoutMarker(_)
WithoutMarker(t) ==
    IF t = <<>> THEN <<>>
    ELSE IF StartsWith(t, OptionalMarker)
    THEN WithoutMarker(SubSeq(t, Len(OptionalMarker) + 1, Len(t)))
    ELSE <<t[1]>> \o WithoutMarker(Tail(t))

\* ----------------------------------------------------------- claim C13
\* C13: a bullet of the dependencies section adds one entry at the end of
\* the dependency list; with the optional marker in the bullet the entry has
\* optional = true and the bullet text without the marker (and without the
\* white space left around it) as name, without the marker it has
\* optional = false and the bullet text as name.
C13_DependencyOptionalMarker ==
    [][(LineStep /\ current_section = DependenciesName /\ IsBullet(fcm_lines[lineno]))
         => LET t == BulletText(fcm_lines[lineno])
            IN  fcm_data'.dependencies =
                    Append(fcm_data.dependencies,
                           IF HasMarker(t)
                           THEN [name |-> Strip(WithoutMarker(t)), optional |-> TRUE]
                           ELSE [name |-> t, optional |-> FALSE])]_vars

\* a parsed document with an optional dependency followed by a plain one
C13_Witness ==
    /\ parser_pc = "done"
    /\ fcm_data.dependencies =
         << [name |-> <<"f", "o", "r", "c", "e", ":", " ", "b", "o", "o", "l", "e", "a", "n">>, optional |-> TRUE],
            [name |-> <<"j", "q">>, optional |-> FALSE] >>

\* ----------------------------------------------------------- claim C14
\* the step appended a parameter
ParameterAdded == Len(fcm_data'.parameters) = Len(fcm_data.parameters) + 1

\* the declaration ends with the optional marker
HasTrailingMarker(t) == EndsWith(t, OptionalMarker)

\* the type text of a declaration `name: type (optional)?`: what follows the
\* first colon, without the trailing marker
DeclaredType(t) ==
    LET after == Strip(SplitOnce(t, <<":">>)[2])
    IN  IF HasTrailingMarker(t)
        THEN Strip(SubSeq(after, 1, Len(after) - Len(OptionalMarker)))
        ELSE after

\* C14 as stated: a parameter read from a bullet of the parameters section
\* is required exactly when its declaration has no trailing optional marker;
\* when its type text contains '|' its type is `choice` and its choices are
\* the '|'-separated alternatives in order, otherwise its type is the type
\* text and it has no choices.
C14_ChoiceAndRequired ==
    [][(LineStep /\ current_section = ParametersName /\ IsBullet(fcm_lines[lineno])
        /\ ParameterAdded)
         => LET t == BulletText(fcm_lines[lineno])
                p == fcm_data'.parameters[Len(fcm_data'.parameters)]
            IN  /\ p.required = ~HasTrailingMarker(t)
                /\ IF \E i \in 1..Len(DeclaredType(t)) : DeclaredType(t)[i] = "|"
                   THEN p.type = ChoiceType /\ p.choices = Split(DeclaredType(t), "|")
                   ELSE p.type = DeclaredType(t) /\ "choices" \notin DOMAIN p]_vars

\* =====================================================================
\* The checksum of a document across edits of its file
\* =====================================================================
\* ------------------------------------------------------ bounds (checksum)
\* bytes of a file
MaxBytes == 3
\* parsers constructed on the file
MaxParses == 2

\* the bytes files are made of: a letter, a header separator, the line ends
FileAlphabet == {"a", ":", "\r", "\n"}

RECURSIVE FilesOfLength(_)
FilesOfLength(n) ==
    IF n = 0 THEN {<<>>}
    ELSE {Append(f, b) : f \in FilesOfLength(n - 1), b \in FileAlphabet}

FilePool == UNION {FilesOfLength(n) : n \in 0..MaxBytes}

\* the whole loop of _parse, from line i on
RECURSIVE ParseFrom(_, _, _)
ParseFrom(st, ls, i) ==
    IF i > Len(ls) \/ st.error THEN st ELSE ParseFrom(ParseLine(st, ls[i]), ls, i + 1)

InitSum ==
    /\ fcm_bytes \in FilePool
    /\ fcm_content = NoneV
    /\ fcm_lines = <<>>
    /\ lineno = 0
    /\ current_section = NoneV
    /\ fcm_data = NoneRec
    /\ parser_pc = "new"
    /\ checksum = NoneV
    /\ seen = <<>>
    /\ GeneratorOff /\ VersionOff /\ OpsOff

\* FCMParser(path) followed by get_checksum(), as _generate_job_definition
\* uses them; seen records the file's bytes with the checksum taken
ParseAndSum ==
    /\ parser_pc = "new"
    /\ LET text == ReadText(fcm_bytes)
           ls == Split(Strip(text), "\n")
           st == ParseFrom([data |-> EmptyData, section |-> NoneV, error |-> FALSE], ls, 1)
       IN  /\ fcm_content' = text
           /\ fcm_lines' = ls
           /\ lineno' = Len(ls) + 1
           /\ fcm_data' = st.data
           /\ current_section' = st.section
           /\ checksum' = Sha256(text)
           /\ seen' = Append(seen, [bytes |-> fcm_bytes, sum |-> Sha256(text)])
           /\ parser_pc' = IF st.error THEN "raised" ELSE "done"
    /\ UNCHANGED fcm_bytes
    /\ UNCHANGED exceptParseVars

\* the next run finds the file as it was
Reparse ==
    /\ parser_pc = "done"
    /\ Len(seen) < MaxParses
    /\ parser_pc' = "new"
    /\ UNCHANGED <<fcm_bytes, fcm_content, fcm_lines, lineno, current_section, fcm_data,
                   checksum, seen>>
    /\ UNCHANGED exceptParseVars

\* the file is edited before the next run
EditFile ==
    /\ parser_pc = "done"
    /\ Len(seen) < MaxParses
    /\ fcm_bytes' \in FilePool \ {fcm_bytes}
    /\ parser_pc' = "new"
    /\ UNCHANGED <<fcm_content, fcm_lines, lineno, current_section, fcm_data, checksum, seen>>
    /\ UNCHANGED exceptParseVars

NextSum == ParseAndSum \/ Reparse \/ EditFile

SpecSum == InitSum /\ [][NextSum]_vars

\* ----------------------------------------------------------- claim C15
\* C15 as stated: two parses of the file give the same checksum when the
\* file's bytes were the same, and different checksums when any byte differed.
C15_ChecksumFollowsBytes ==
    \A i, j \in 1..Len(seen) :
        (seen[i].bytes = seen[j].bytes) <=> (seen[i].sum = seen[j].sum)

\* ----------------------------------------------------------- claim C20
\* a section header: a line that is neither blank, a comment, one of the
\* five header fields nor a list item, and ends with ':'
IsSectionHeader(raw) ==
    LET l == Strip(raw)
    IN  /\ l # <<>>
        /\ l[1] # "#"
        /\ l[1] # "-"
        /\ l[Len(l)] = ":"
        /\ \A k \in 1..Len(HeaderPrefixes) : ~StartsWith(l, HeaderPrefixes[k][1])

\* the lower-cased name of the last section header above line i, NoneV
\* when there is none
SectionAbove(i) ==
    LET hs == {h \in 1..(i - 1) : IsSectionHeader(fcm_lines[h])}
        h == CHOOSE x \in hs : \A y \in hs : y <= x
    IN  IF hs = {} THEN NoneV
        ELSE Lower(SubSeq(Strip(fcm_lines[h]), 1, Len(Strip(fcm_lines[h])) - 1))

\* collection c got exactly one entry more, at its end
Grown(c) ==
    /\ Len(fcm_data'[c]) = Len(fcm_data[c]) + 1
    /\ SubSeq(fcm_data'[c], 1, Len(fcm_data[c])) = fcm_data[c]

Collections == {"parameters", "outputs", "dependencies", "patterns"}

\* the collection a section name stands for, "" for every other name
CollectionOf(name) ==
    IF name = ParametersName THEN "parameters"
    ELSE IF name = OutputsName THEN "outputs"
    ELSE IF name = DependenciesName THEN "dependencies"
    ELSE IF name = PatternsName THEN "patterns"
    ELSE ""

\* the text is a declaration `name: type`: word characters, a colon, a type
IsDeclaration(t) ==
    \E n \in 1..(Len(t) - 2) : t[n + 1] = ":" /\ \A k \in 1..n : IsWord(t[k])

\* C20 as stated: a bullet line goes to the collection of the last section
\* header above it: under parameters, outputs, dependencies or patterns that
\* collection gets one entry more at its end and the others stay, under any
\* other section (or none) every collection stays; no step raises.
C20_BulletsFollowSection ==
    [][LineStep =>
         /\ parser_pc' # "raised"
         /\ IsBullet(fcm_lines[lineno]) =>
              \A c \in Collections :
                  IF c = CollectionOf(SectionAbove(lineno))
                  THEN Grown(c)
                  ELSE fcm_data'[c] = fcm_data[c]]_vars

\* C20 amended: the same, except that a bullet under parameters is appended
\* only when it is a declaration `name: type` and is dropped otherwise.
C20_BulletsFollowSectionIfDeclared ==
    [][LineStep =>
         /\ parser_pc' # "raised"
         /\ IsBullet(fcm_lines[lineno]) =>
              \A c \in Collections :
                  IF /\ c = CollectionOf(SectionAbove(lineno))
                     /\ c = "parameters" => IsDeclaration(BulletText(fcm_lines[lineno]))
                  THEN Grown(c)
                  ELSE fcm_data'[c] = fcm_data[c]]_vars

\* a parsed document with a dropped bullet under parameters, then a kept
\* bullet under the next section, then a bullet under a section without
\* collection
C20_Witness ==
    /\ parser_pc = "done"
    /\ Len(fcm_lines) >= 4
    /\ SectionAbove(2) = ParametersName /\ IsBullet(fcm_lines[2])
    /\ SectionAbove(4) = OutputsName /\ IsBullet(fcm_lines[4])
    /\ fcm_data.parameters = <<>>
    /\ fcm_data.outputs = <<BulletText(fcm_lines[4])>>

\* =====================================================================
\* The version calculators (actions/core/version_calculator/main.py and
\* scripts/version_operations.py)
\* =====================================================================
\* ------------------------------------------------------- bound (version)
\* commits git counts since a tag
MaxCommits == 2

DigitChars == <<"0", "1", "2", "3", "4", "5", "6", "7", "8", "9">>

IsDigit(c) == \E i \in 1..10 : DigitChars[i] = c

DigitVal(c) == (CHOOSE i \in 1..10 : DigitChars[i] = c) - 1

\* int(s) on a string of decimal digits
RECURSIVE ParseInt(_)
ParseInt(s) ==
    IF s = <<>> THEN 0
    ELSE 10 * ParseInt(SubSeq(s, 1, Len(s) - 1)) + DigitVal(s[Len(s)])

\* str(n) for n >= 0
RECURSIVE FormatInt(_)
FormatInt(n) ==
    IF n < 10 THEN <<DigitChars[n + 1]>>
    ELSE FormatInt(n \div 10) \o <<DigitChars[(n % 10) + 1]>>

\* length of the longest run of digits s starts with
RECURSIVE DigitRun(_)
DigitRun(s) == IF s # <<>> /\ IsDigit(s[1]) THEN 1 + DigitRun(Tail(s)) ELSE 0

\* s without its first n characters
Drop(s, n) == SubSeq(s, n + 1, Len(s))

\* re.match(f'{prefix}(\d+)\.(\d+)\.(\d+)', s) for a prefix of literal
\* characters: NoneRec, or the three groups and what follows the match
VersionMatch(prefix, s) ==
    LET a == Drop(s, Len(prefix))
        n1 == DigitRun(a)
        b == Drop(a, n1 + 1)
        n2 == DigitRun(b)
        c == Drop(b, n2 + 1)
        n3 == DigitRun(c)
    IN  IF /\ StartsWith(s, prefix)
           /\ n1 > 0 /\ Len(a) > n1 /\ a[n1 + 1] = "."
           /\ n2 > 0 /\ Len(b) > n2 /\ b[n2 + 1] = "."
           /\ n3 > 0
        THEN [major |-> SubSeq(a, 1, n1), minor |-> SubSeq(b, 1, n2),
              patch |-> SubSeq(c, 1, n3), rest |-> Drop(c, n3)]
        ELSE NoneRec

\* validate_version_format: the pattern anchored at both ends
ValidVersionFormat(version, prefix) ==
    /\ ~IsNone(VersionMatch(prefix, version))
    /\ VersionMatch(prefix, version).rest = <<>>

\* the next version with the patch raised by one, whatever the count
NextVersion_PatchPlusOne(prefix, m, commit_count) ==
    prefix \o FormatInt(ParseInt(m.major)) \o <<".">> \o FormatInt(ParseInt(m.minor))
           \o <<".">> \o FormatInt(ParseInt(m.patch) + 1)

\* f"{version_prefix}{major}.{minor}.{patch + commit_count}"
NextVersion(prefix, m, commit_count) ==
    prefix \o FormatInt(ParseInt(m.major)) \o <<".">> \o FormatInt(ParseInt(m.minor))
           \o <<".">> \o FormatInt(ParseInt(m.patch) + commit_count)

\* os.environ.get(k, dflt), and a or b on strings and None
EnvGet(env, k, dflt) == IF k \in DOMAIN env THEN env[k] ELSE dflt

OrElse(a, b) == IF a # NoneV /\ a # <<>> THEN a ELSE b

\* main from the validation of the inputs to the results: exit is 1 where
\* the program calls sys.exit(1), Running where it goes on to its outputs.
\* git is what the two git commands answer: fails names the command that
\* fails, tags is the sorted tag listing, count the commits since the tag.
Calculate(default_version, version_prefix, git) ==
    LET latest_tag == IF git.tags = <<>> THEN NoneV ELSE git.tags[1]
        current_version == IF latest_tag # NoneV THEN latest_tag ELSE default_version
        commit_count == IF latest_tag # NoneV THEN git.count ELSE 0
        m == VersionMatch(version_prefix, latest_tag)
        failed == [exit |-> 1, current_version |-> NoneV, next_version |-> NoneV,
                   commit_count |-> 0]
    IN  IF ~ValidVersionFormat(default_version, version_prefix) THEN failed
        ELSE IF git.fails = "tag" THEN failed
        ELSE IF latest_tag # NoneV /\ git.fails = "rev-list" THEN failed
        ELSE IF latest_tag # NoneV /\ commit_count > 0
        THEN IF IsNone(m) THEN failed
             ELSE [exit |-> Running, current_version |-> current_version,
                   next_version |-> NextVersion(version_prefix, m, commit_count),
                   commit_count |-> commit_count]
        ELSE [exit |-> Running, current_version |-> current_version,
              next_version |-> current_version, commit_count |-> commit_count]

DefaultVersion == <<"v", "0", ".", "1", ".", "0">>
DefaultPrefix == <<"v">>

\* environments a calculator is started in
EnvPool ==
    { EmptyDir,
      ("VERSION_PREFIX" :> <<"r", "e", "l", "e", "a", "s", "e", "-">>) @@ ("DEFAULT_VERSION" :> <<"r", "e", "l", "e", "a", "s", "e", "-", "0", ".", "1", ".", "0">>),
      ("DEFAULT_VERSION" :> <<"1", ".", "0">>),
      ("INPUT_VERSION_PREFIX" :> <<"r", "e", "l", "e", "a", "s", "e", "-">>) @@ ("INPUT_DEFAULT_VERSION" :> <<"r", "e", "l", "e", "a", "s", "e", "-", "0", ".", "1", ".", "0">>)
          @@ ("GITHUB_OUTPUT" :> <<"g", "h">>) }

\* what `git tag -l <pattern> --sort=-v:refname` may list
TagListings ==
    { <<>>,
      <<<<"v", "1", ".", "0", ".", "0">>>>,
      <<<<"v", "1", ".", "2", ".", "9">>, <<"v", "1", ".", "0", ".", "0">>>>,
      <<<<"r", "e", "l", "e", "a", "s", "e", "-", "2", ".", "0", ".", "0">>>>,
      <<<<"v", "1", ".", "0">>>>,
      <<<<"v", "0", "1", ".", "2", ".", "3", "-", "r", "c", "1">>>> }

InitVersion ==
    /\ ver_prog = "none"
    /\ ver_env \in EnvPool
    /\ ver_git \in [fails : {"none", "tag", "rev-list"}, tags : TagListings,
                    count : 0..MaxCommits]
    /\ ver_out = NoneRec
    /\ gh_out = <<>>
    /\ ver_exit = Running
    /\ GeneratorOff /\ ParserOff /\ OpsOff

\* actions/core/version_calculator/main.py: main with write_outputs
CalculatorMain ==
    /\ ver_prog = "none"
    /\ LET default_version == OrElse(EnvGet(ver_env, "INPUT_DEFAULT_VERSION", NoneV),
                                     EnvGet(ver_env, "DEFAULT_VERSION", DefaultVersion))
           version_prefix == OrElse(EnvGet(ver_env, "INPUT_VERSION_PREFIX", NoneV),
                                    EnvGet(ver_env, "VERSION_PREFIX", DefaultPrefix))
           r == Calculate(default_version, version_prefix, ver_git)
       IN  IF r.exit = 1
           THEN ver_exit' = 1 /\ UNCHANGED <<ver_out, gh_out>>
           ELSE /\ gh_out' = IF OrElse(EnvGet(ver_env, "GITHUB_OUTPUT", NoneV), NoneV) # NoneV
                             THEN gh_out \o << <<<<"c", "u", "r", "r", "e", "n", "t", "_", "v", "e", "r", "s", "i", "o", "n">>, r.current_version>>,
                                               <<<<"n", "e", "x", "t", "_", "v", "e", "r", "s", "i", "o", "n">>, r.next_version>>,
                                               <<<<"c", "o", "m", "m", "i", "t", "_", "c", "o", "u", "n", "t">>, FormatInt(r.commit_count)>> >>
                             ELSE gh_out
                /\ ver_out' = [lines |-> << <<<<"C", "U", "R", "R", "E", "N", "T", "_", "V", "E", "R", "S", "I", "O", "N">>, r.current_version>>,
                                            <<<<"N", "E", "X", "T", "_", "V", "E", "R", "S", "I", "O", "N">>, r.next_version>>,
                                            <<<<"C", "O", "M", "M", "I", "T", "_", "C", "O", "U", "N", "T">>, FormatInt(r.commit_count)>> >>]
                /\ ver_exit' = 0
    /\ ver_prog' = "main"
    /\ UNCHANGED <<ver_env, ver_git>>
    /\ UNCHANGED exceptVerVars

\* scripts/version_operations.py: main with write_gitlab_outputs
VersionOperationsMain ==
    /\ ver_prog = "none"
    /\ LET default_version == EnvGet(ver_env, "DEFAULT_VERSION", DefaultVersion)
           version_prefix == EnvGet(ver_env, "VERSION_PREFIX", DefaultPrefix)
           r == Calculate(default_version, version_prefix, ver_git)
       IN  IF r.exit = 1
           THEN ver_exit' = 1 /\ UNCHANGED ver_out
           ELSE /\ ver_out' = [lines |-> << <<Upper(<<"c", "u", "r", "r", "e", "n", "t", "_", "v", "e", "r", "s", "i", "o", "n">>), r.current_version>>,
                                            <<Upper(<<"n", "e", "x", "t", "_", "v", "e", "r", "s", "i", "o", "n">>), r.next_version>>,
                                            <<Upper(<<"c", "o", "m", "m", "i", "t", "_", "c", "o", "u", "n", "t">>), FormatInt(r.commit_count)>> >>]
                /\ ver_exit' = 0
    /\ ver_prog' = "script"
    /\ UNCHANGED <<ver_env, ver_git, gh_out>>
    /\ UNCHANGED exceptVerVars

NextVersionCalc == CalculatorMain \/ VersionOperationsMain

SpecVersion == InitVersion /\ [][NextVersionCalc]_vars

\* ----------------------------------------------------------- claim C16
\* the value operation_outputs.env holds for a key
Output(key) == ver_out.lines[CHOOSE i \in 1..Len(ver_out.lines) : ver_out.lines[i][1] = key][2]

\* the inputs as the program that ran reads them
PrefixRead ==
    IF ver_prog = "main" /\ "INPUT_VERSION_PREFIX" \in DOMAIN ver_env
    THEN ver_env["INPUT_VERSION_PREFIX"]
    ELSE IF "VERSION_PREFIX" \in DOMAIN ver_env THEN ver_env["VERSION_PREFIX"] ELSE DefaultPrefix

DefaultRead ==
    IF ver_prog = "main" /\ "INPUT_DEFAULT_VERSION" \in DOMAIN ver_env
    THEN ver_env["INPUT_DEFAULT_VERSION"]
    ELSE IF "DEFAULT_VERSION" \in DOMAIN ver_env THEN ver_env["DEFAULT_VERSION"]
    ELSE DefaultVersion

\* the number a dotted part of a tag starts with
RECURSIVE LeadingNumber(_, _)
LeadingNumber(s, acc) ==
    IF s = <<>> \/ ~IsDigit(s[1]) THEN acc
    ELSE LeadingNumber(Tail(s), 10 * acc + DigitVal(s[1]))

\* major, minor and patch of a tag: the numbers of its first three dotted
\* parts after the prefix
TagNumbers(tag, prefix) ==
    LET parts == Split(Drop(tag, Len(prefix)), ".")
    IN  [i \in 1..3 |-> LeadingNumber(parts[i], 0)]

Dotted(prefix, major, minor, patch) ==
    prefix \o FormatInt(major) \o <<".">> \o FormatInt(minor) \o <<".">> \o FormatInt(patch)

\* C16: a calculator that ends with status 0 has written: with a latest tag
\* and a positive commit count, the tag as current version and
\* prefix + major.minor.(patch + count) as next version; with a latest tag
\* and no commit since, the tag as both; with no tag, the default version
\* as both and a commit count of 0.
C16_NextVersion ==
    ver_exit = 0 =>
        LET tags == ver_git.tags
            n == TagNumbers(tags[1], PrefixRead)
        IN  IF tags # <<>> /\ ver_git.count > 0
            THEN /\ Output(<<"C", "U", "R", "R", "E", "N", "T", "_", "V", "E", "R", "S", "I", "O", "N">>) = tags[1]
                 /\ Output(<<"N", "E", "X", "T", "_", "V", "E", "R", "S", "I", "O", "N">>) = Dotted(PrefixRead, n[1], n[2], n[3] + ver_git.count)
                 /\ Output(<<"C", "O", "M", "M", "I", "T", "_", "C", "O", "U", "N", "T">>) = FormatInt(ver_git.count)
            ELSE IF tags # <<>>
            THEN /\ Output(<<"C", "U", "R", "R", "E", "N", "T", "_", "V", "E", "R", "S", "I", "O", "N">>) = tags[1]
                 /\ Output(<<"N", "E", "X", "T", "_", "V", "E", "R", "S", "I", "O", "N">>) = tags[1]
                 /\ Output(<<"C", "O", "M", "M", "I", "T", "_", "C", "O", "U", "N", "T">>) = <<"0">>
            ELSE /\ Output(<<"C", "U", "R", "R", "E", "N", "T", "_", "V", "E", "R", "S", "I", "O", "N">>) = DefaultRead
                 /\ Output(<<"N", "E", "X", "T", "_", "V", "E", "R", "S", "I", "O", "N">>) = DefaultRead
                 /\ Output(<<"C", "O", "M", "M", "I", "T", "_", "C", "O", "U", "N", "T">>) = <<"0">>

\* a run on tag v1.2.9 with commits since it, whose patch number grows a digit
C16_Witness ==
    /\ ver_exit = 0
    /\ ver_git.tags # <<>>
    /\ ver_git.tags[1] = <<"v", "1", ".", "2", ".", "9">>
    /\ ver_git.count = 1
    /\ Output(<<"N", "E", "X", "T", "_", "V", "E", "R", "S", "I", "O", "N">>) = <<"v", "1", ".", "2", ".", "1", "0">>

\* =====================================================================
\* FileOperations and the runtime runners (scripts/system_operations.py,
\* scripts/git_operations.py)
\* =====================================================================
\* paths below the working directory; "d/c" lies in the directory "d"
Paths == {"a", "d/c"}

\* Path.parent; "." is the working directory, which always exists
Parent(p) == IF p = "d/c" THEN "d" ELSE "."

ParentExists(ds, p) == Parent(p) = "." \/ Parent(p) \in ds

\* str(path.absolute())
Absolute(p) == <<"/cwd/", p>>

\* contents, as text and as the bytes of a file
Contents == {"", "x", "yy", "eA=="}

\* number of bytes
Size(c) == IF c = "" THEN 0 ELSE IF c = "x" THEN 1 ELSE IF c = "yy" THEN 2 ELSE 4

\* base64.b64decode on the contents: only "" and "eA==" are base64 text,
\* the others raise binascii.Error
IsBase64(c) == c \in {"", "eA=="}

B64Decode(c) == IF c = "eA==" THEN "x" ELSE ""

\* base64.b64encode(bytes).decode('ascii')
B64Encode(c) ==
    IF c = "" THEN "" ELSE IF c = "x" THEN "eA==" ELSE IF c = "yy" THEN "eXk=" ELSE "ZUE9PQ=="

\* keys of the outputs dict
KFileCreated == <<"f", "i", "l", "e", "_", "c", "r", "e", "a", "t", "e", "d">>
KFileSize == <<"f", "i", "l", "e", "_", "s", "i", "z", "e">>
KFileExists == <<"f", "i", "l", "e", "_", "e", "x", "i", "s", "t", "s">>
KFileContent == <<"f", "i", "l", "e", "_", "c", "o", "n", "t", "e", "n", "t">>
KFileDeleted == <<"f", "i", "l", "e", "_", "d", "e", "l", "e", "t", "e", "d">>
KFilesFound == <<"f", "i", "l", "e", "s", "_", "f", "o", "u", "n", "d">>
KOperationStatus == <<"o", "p", "e", "r", "a", "t", "i", "o", "n", "_", "s", "t", "a", "t", "u", "s">>

\* outputs[k] = v
SetOutput(o, k, v) == [x \in DOMAIN o \cup {k} |-> IF x = k THEN v ELSE o[x]]

\* what a method returns and leaves behind: w is [files, dirs, outputs]
Returned(w, success, message) ==
    [files |-> w.files, dirs |-> w.dirs, outputs |-> w.outputs,
     ret |-> [success |-> success, message |-> message]]

\* path.parent.mkdir(parents=True, exist_ok=True)
Mkdir(w, p) == IF Parent(p) = "." THEN w ELSE [w EXCEPT !.dirs = @ \cup {Parent(p)}]

\* create_file that writes over an existing file whatever overwrite says
create_file_Clobber(w, file_path, text, encoding, create_dirs, overwrite) ==
    LET w1 == IF create_dirs THEN Mkdir(w, file_path) ELSE w
        bytes == IF encoding = "base64" THEN B64Decode(text) ELSE text
        w2 == [w1 EXCEPT !.files = Put(@, file_path, bytes),
                         !.outputs = SetOutput(SetOutput(SetOutput(@,
                             KFileCreated, Absolute(file_path)),
                             KFileSize, FormatInt(Size(bytes))),
                             KFileExists, "true")]
    IN  IF encoding = "base64" /\ ~IsBase64(text)
        THEN Returned(w1, FALSE, <<"Failed to create file: ", "Incorrect padding">>)
        ELSE IF ~ParentExists(w1.dirs, file_path)
        THEN Returned(w1, FALSE, <<"Failed to create file: ", "No such file or directory">>)
        ELSE Returned(w2, TRUE, <<"File created successfully: ", file_path>>)

\* FileOperations.create_file
create_file(w, file_path, text, encoding, create_dirs, overwrite) ==
    LET w1 == IF create_dirs THEN Mkdir(w, file_path) ELSE w
        bytes == IF encoding = "base64" THEN B64Decode(text) ELSE text
        w2 == [w1 EXCEPT !.files = Put(@, file_path, bytes),
                         !.outputs = SetOutput(SetOutput(SetOutput(@,
                             KFileCreated, Absolute(file_path)),
                             KFileSize, FormatInt(Size(bytes))),
                             KFileExists, "true")]
    IN  IF file_path \in DOMAIN w.files /\ ~overwrite
        THEN Returned(w, FALSE, <<"File already exists: ", file_path>>)
        ELSE IF encoding = "base64" /\ ~IsBase64(text)
        THEN Returned(w1, FALSE, <<"Failed to create file: ", "Incorrect padding">>)
        ELSE IF ~ParentExists(w1.dirs, file_path)
        THEN Returned(w1, FALSE, <<"Failed to create file: ", "No such file or directory">>)
        ELSE Returned(w2, TRUE, <<"File created successfully: ", file_path>>)

\* FileOperations.read_file; the content read is in outputs
read_file(w, file_path, encoding) ==
    LET text == IF encoding = "base64" THEN B64Encode(w.files[file_path])
                ELSE w.files[file_path]
    IN  IF file_path \notin DOMAIN w.files
        THEN Returned([w EXCEPT !.outputs = SetOutput(@, KFileExists, "false")],
                      FALSE, <<"File not found: ", file_path>>)
        ELSE Returned([w EXCEPT !.outputs = SetOutput(SetOutput(SetOutput(@,
                           KFileContent, text),
                           KFileSize, FormatInt(Size(w.files[file_path]))),
                           KFileExists, "true")],
                      TRUE, <<"File read successfully: ", file_path>>)

\* FileOperations.update_file
update_file(w, file_path, text, encoding) ==
    LET bytes == IF encoding = "base64" THEN B64Decode(text) ELSE text
    IN  IF file_path \notin DOMAIN w.files
        THEN Returned(w, FALSE, <<"File not found: ", file_path>>)
        ELSE IF encoding = "base64" /\ ~IsBase64(text)
        THEN Returned(w, FALSE, <<"Failed to update file: ", "Incorrect padding">>)
        ELSE Returned([w EXCEPT !.files = Put(@, file_path, bytes),
                                !.outputs = SetOutput(SetOutput(@,
                                    KFileSize, FormatInt(Size(bytes))),
                                    KFileExists, "true")],
                      TRUE, <<"File updated successfully: ", file_path>>)

\* the directory without one name
Remove(files, p) == [n \in DOMAIN files \ {p} |-> files[n]]

\* FileOperations.delete_file
delete_file(w, file_path) ==
    IF file_path \notin DOMAIN w.files
    THEN Returned(w, FALSE, <<"File not found: ", file_path>>)
    ELSE Returned([w EXCEPT !.files = Remove(@, file_path),
                            !.outputs = SetOutput(SetOutput(@,
                                KFileDeleted, Absolute(file_path)),
                                KFileExists, "false")],
                  TRUE, <<"File deleted successfully: ", file_path>>)

\* FileOperations.copy_file; shutil.copy2 refuses to copy a file onto itself
copy_file(w, file_path, destination, create_dirs, overwrite) ==
    LET w1 == IF create_dirs THEN Mkdir(w, destination) ELSE w
    IN  IF file_path \notin DOMAIN w.files
        THEN Returned(w, FALSE, <<"Source file not found: ", file_path>>)
        ELSE IF destination \in DOMAIN w.files /\ ~overwrite
        THEN Returned(w, FALSE, <<"Destination already exists: ", destination>>)
        ELSE IF file_path = destination
        THEN Returned(w1, FALSE, <<"Failed to copy file: ", "are the same file">>)
        ELSE IF ~ParentExists(w1.dirs, destination)
        THEN Returned(w1, FALSE, <<"Failed to copy file: ", "No such file or directory">>)
        ELSE Returned([w1 EXCEPT !.files = Put(@, destination, w.files[file_path]),
                                 !.outputs = SetOutput(SetOutput(@,
                                     KFileSize, FormatInt(Size(w.files[file_path]))),
                                     KFileExists, "true")],
                      TRUE, <<"File copied successfully: ", file_path, destination>>)

\* FileOperations.move_file; shutil.move renames, and renaming a file to
\* its own path succeeds and changes nothing
move_file(w, file_path, destination, create_dirs, overwrite) ==
    LET w1 == IF create_dirs THEN Mkdir(w, destination) ELSE w
    IN  IF file_path \notin DOMAIN w.files
        THEN Returned(w, FALSE, <<"Source file not found: ", file_path>>)
        ELSE IF destination \in DOMAIN w.files /\ ~overwrite
        THEN Returned(w, FALSE, <<"Destination already exists: ", destination>>)
        ELSE IF ~ParentExists(w1.dirs, destination)
        THEN Returned(w1, FALSE, <<"Failed to move file: ", "No such file or directory">>)
        ELSE Returned([w1 EXCEPT !.files = Put(Remove(@, file_path), destination,
                                               w.files[file_path]),
                                 !.outputs = SetOutput(SetOutput(@,
                                     KFileSize, FormatInt(Size(w.files[file_path]))),
                                     KFileExists, "true")],
                      TRUE, <<"File moved successfully: ", file_path, destination>>)

\* patterns searched for
Patterns == {"*", "d/*", "a"}

\* glob.glob(os.path.join(".", pattern)) as relative paths; the order glob
\* lists them in is not kept
Glob(w, pattern) ==
    IF pattern = "*" THEN {p \in DOMAIN w.files : Parent(p) = "."} \cup w.dirs
    ELSE IF pattern = "d/*" THEN {p \in DOMAIN w.files : Parent(p) = "d"}
    ELSE {p \in DOMAIN w.files \cup w.dirs : p = pattern}

\* FileOperations.search_files
search_files(w, pattern) ==
    Returned([w EXCEPT !.outputs = SetOutput(@, KFilesFound, Glob(w, pattern))],
             TRUE, <<"Found files matching pattern: ", pattern,
                     ToString(Cardinality(Glob(w, pattern)))>>)

Encodings == {"utf-8", "base64"}

\* texts handed to create_file and update_file
NewContents == {"yy", "eA=="}

\* processes (test calls and runner jobs) followed on one file system
MaxProcesses == 1

\* the file systems a test or a job starts on; operation_outputs.env may be
\* left over from an earlier job
InitOps ==
    /\ fs_files \in UNION {[S -> {"", "x"}] : S \in SUBSET Paths}
    /\ fs_dirs = {Parent(p) : p \in DOMAIN fs_files} \ {"."}
    /\ op_call = NoneRec
    /\ op_outputs = EmptyDir
    /\ op_ret = NoneRec
    /\ run_env = NoneRec
    /\ env_file \in {NoneRec, [lines |-> EmptyDir]}
    /\ executed = <<>>
    /\ run_exit = Running
    /\ processes = 0
    /\ GeneratorOff /\ ParserOff /\ VersionOff

\* a fresh FileOperations() on the files as they are
Fresh == [files |-> fs_files, dirs |-> fs_dirs, outputs |-> EmptyDir]

\* the state after FileOperations().<method>(...) returned r
Called(r, c) ==
    /\ processes < MaxProcesses
    /\ processes' = processes + 1
    /\ fs_files' = r.files
    /\ fs_dirs' = r.dirs
    /\ op_outputs' = r.outputs
    /\ op_ret' = r.ret
    /\ op_call' = c
    /\ UNCHANGED <<run_env, env_file, executed, run_exit>>
    /\ UNCHANGED exceptOpsVars

CallCreateFile ==
    \E p \in Paths, t \in NewContents, e \in Encodings, cd \in BOOLEAN, ow \in BOOLEAN :
        Called(create_file(Fresh, p, t, e, cd, ow),
               [op |-> "create_file", file_path |-> p, text |-> t, encoding |-> e,
                create_dirs |-> cd, overwrite |-> ow])

CallReadFile ==
    \E p \in Paths, e \in Encodings :
        Called(read_file(Fresh, p, e), [op |-> "read_file", file_path |-> p, encoding |-> e])

CallUpdateFile ==
    \E p \in Paths, t \in NewContents, e \in Encodings :
        Called(update_file(Fresh, p, t, e),
               [op |-> "update_file", file_path |-> p, text |-> t, encoding |-> e])

CallDeleteFile ==
    \E p \in Paths :
        Called(delete_file(Fresh, p), [op |-> "delete_file", file_path |-> p])

CallCopyFile ==
    \E p \in Paths, d \in Paths, cd \in BOOLEAN, ow \in BOOLEAN :
        Called(copy_file(Fresh, p, d, cd, ow),
               [op |-> "copy_file", file_path |-> p, destination |-> d,
                create_dirs |-> cd, overwrite |-> ow])

CallMoveFile ==
    \E p \in Paths, d \in Paths, cd \in BOOLEAN, ow \in BOOLEAN :
        Called(move_file(Fresh, p, d, cd, ow),
               [op |-> "move_file", file_path |-> p, destination |-> d,
                create_dirs |-> cd, overwrite |-> ow])

CallSearchFiles ==
    \E pt \in Patterns :
        Called(search_files(Fresh, pt), [op |-> "search_files", pattern |-> pt])

\* ------------------------------------------------------------- runners
\* the keys of the table of GitLabFileOperationsRunner.run
FileOperationTable ==
    {<<"c", "r", "e", "a", "t", "e">>, <<"r", "e", "a", "d">>, <<"u", "p", "d", "a", "t", "e">>, <<"d", "e", "l", "e", "t", "e">>, <<"c", "o", "p", "y">>, <<"m", "o", "v", "e">>, <<"s", "e", "a", "r", "c", "h">>}

\* values of OPERATION a job may carry; NoneV stands for the unset variable
OperationValues == FileOperationTable \cup {<<"C", "R", "E", "A", "T", "E">>, <<"i", "n", "v", "a", "l", "i", "d", "_", "o", "p", "e", "r", "a", "t", "i", "o", "n">>, NoneV}

\* os.environ for the file runner: unset variables are absent
RunnerEnv(o, f, d, ow) ==
    LET base == ("FILE_PATH" :> f) @@ ("DESTINATION" :> d) @@ ("OVERWRITE" :> ow)
                @@ ("CONTENT" :> "yy") @@ ("PATTERN" :> "*")
    IN  IF o = NoneV THEN base ELSE ("OPERATION" :> o) @@ base

\* the method the table entry calls, after its check of the required
\* variables; r is the runner's fields
Dispatch(w, operation, r) ==
    IF operation = <<"c", "r", "e", "a", "t", "e">>
    THEN IF r.file_path = ""
         THEN Returned(w, FALSE, <<"FILE_PATH is required for create operation">>)
         ELSE create_file(w, r.file_path, r.content, r.encoding, r.create_dirs, r.overwrite)
    ELSE IF operation = <<"r", "e", "a", "d">>
    THEN IF r.file_path = ""
         THEN Returned(w, FALSE, <<"FILE_PATH is required for read operation">>)
         ELSE read_file(w, r.file_path, r.encoding)
    ELSE IF operation = <<"u", "p", "d", "a", "t", "e">>
    THEN IF r.file_path = ""
         THEN Returned(w, FALSE, <<"FILE_PATH is required for update operation">>)
         ELSE update_file(w, r.file_path, r.content, r.encoding)
    ELSE IF operation = <<"d", "e", "l", "e", "t", "e">>
    THEN IF r.file_path = ""
         THEN Returned(w, FALSE, <<"FILE_PATH is required for delete operation">>)
         ELSE delete_file(w, r.file_path)
    ELSE IF operation = <<"c", "o", "p", "y">>
    THEN IF r.file_path = "" \/ r.destination = ""
         THEN Returned(w, FALSE, <<"FILE_PATH and DESTINATION are required for copy operation">>)
         ELSE copy_file(w, r.file_path, r.destination, r.create_dirs, r.overwrite)
    ELSE IF operation = <<"m", "o", "v", "e">>
    THEN IF r.file_path = "" \/ r.destination = ""
         THEN Returned(w, FALSE, <<"FILE_PATH and DESTINATION are required for move operation">>)
         ELSE move_file(w, r.file_path, r.destination, r.create_dirs, r.overwrite)
    ELSE IF r.pattern = ""
         THEN Returned(w, FALSE, <<"PATTERN is required for search operation">>)
         ELSE search_files(w, r.pattern)

\* _write_outputs: one KEY="value" line per output
DotEnv(o) ==
    [lines |-> [K \in {Upper(k) : k \in DOMAIN o} |->
                   [quoted |-> o[CHOOSE k \in DOMAIN o : Upper(k) = K]]]]

\* the runner's state after its process ended
RunnerDone(env, r, x, ex, file) ==
    /\ processes' = processes + 1
    /\ run_env' = env
    /\ \E w \in {r} :
          /\ fs_files' = w.files
          /\ fs_dirs' = w.dirs
          /\ op_outputs' = w.outputs
          /\ op_ret' = w.ret
    /\ op_call' = NoneRec
    /\ executed' = ex
    /\ \E f \in {file} : env_file' = f
    /\ run_exit' = x
    /\ UNCHANGED exceptOpsVars

\* GitLabFileOperationsRunner.__init__: the fields read from os.environ
RunnerFields(env) ==
    [file_path |-> EnvGet(env, "FILE_PATH", ""),
     content |-> EnvGet(env, "CONTENT", ""),
     destination |-> EnvGet(env, "DESTINATION", ""),
     pattern |-> EnvGet(env, "PATTERN", ""),
     encoding |-> EnvGet(env, "ENCODING", "utf-8"),
     create_dirs |-> Lower(EnvGet(env, "CREATE_DIRS", <<"t", "r", "u", "e">>)) = <<"t", "r", "u", "e">>,
     overwrite |-> Lower(EnvGet(env, "OVERWRITE", <<"f", "a", "l", "s", "e">>)) = <<"t", "r", "u", "e">>]

\* run() once the table entry has returned r
RunnerOutcome(env, operation, r) ==
    LET status == IF r.ret.success THEN "success" ELSE "failure"
    IN  \E done \in {[r EXCEPT !.outputs = SetOutput(@, KOperationStatus, status)]} :
            RunnerDone([runner |-> "file", env |-> env], done,
                       IF r.ret.success THEN 0 ELSE 1, <<operation>>, DotEnv(done.outputs))

\* a file runner that falls back to search for an operation it does not know
FileRunner_Fallback(env) ==
    \E operation \in {Lower(EnvGet(env, "OPERATION", <<>>))} :
        \E r \in {Dispatch(Fresh, operation, RunnerFields(env))} :
            RunnerOutcome(env, operation, r)

\* system_operations.py: main, GitLabFileOperationsRunner() and run()
FileRunner(env) ==
    \E operation \in {Lower(EnvGet(env, "OPERATION", <<>>))} :
        IF operation \notin FileOperationTable
        THEN RunnerDone([runner |-> "file", env |-> env],
                        [files |-> fs_files, dirs |-> fs_dirs, outputs |-> EmptyDir,
                         ret |-> NoneRec],
                        1, <<>>, env_file)
        ELSE \E r \in {Dispatch(Fresh, operation, RunnerFields(env))} :
                 RunnerOutcome(env, operation, r)

RunFileOperations ==
    /\ processes < MaxProcesses
    /\ \E o \in OperationValues, f \in {"", "a"}, d \in {"", "d/c"}, ow \in {<<"f", "a", "l", "s", "e">>, <<"T", "r", "u", "e">>} :
          \E env \in {RunnerEnv(o, f, d, ow)} : FileRunner(env)

\* the table of GitOperations.run: for every key the variable its method
\* requires ("" when none), the outputs that repeat that variable and the
\* outputs git's answer fills
GitOperationTable ==
    { [key |-> <<"c", "r", "e", "a", "t", "e">>, requires |-> "BRANCH_NAME", echoes |-> {<<"b", "r", "a", "n", "c", "h", "_", "c", "r", "e", "a", "t", "e", "d">>}, fills |-> {}],
      [key |-> <<"d", "e", "l", "e", "t", "e">>, requires |-> "BRANCH_NAME", echoes |-> {<<"b", "r", "a", "n", "c", "h", "_", "d", "e", "l", "e", "t", "e", "d">>}, fills |-> {}],
      [key |-> <<"l", "i", "s", "t">>, requires |-> "", echoes |-> {}, fills |-> {<<"b", "r", "a", "n", "c", "h", "e", "s", "_", "l", "i", "s", "t">>}],
      [key |-> <<"c", "h", "e", "c", "k", "o", "u", "t">>, requires |-> "BRANCH_NAME", echoes |-> {}, fills |-> {<<"c", "u", "r", "r", "e", "n", "t", "_", "b", "r", "a", "n", "c", "h">>}],
      [key |-> <<"m", "e", "r", "g", "e">>, requires |-> "BRANCH_NAME", echoes |-> {}, fills |-> {<<"m", "e", "r", "g", "e", "_", "r", "e", "s", "u", "l", "t">>}],
      [key |-> <<"c", "o", "m", "m", "i", "t">>, requires |-> "COMMIT_MESSAGE", echoes |-> {<<"c", "o", "m", "m", "i", "t", "_", "m", "e", "s", "s", "a", "g", "e">>}, fills |-> {<<"c", "o", "m", "m", "i", "t", "_", "s", "h", "a">>}],
      [key |-> <<"a", "m", "e", "n", "d">>, requires |-> "", echoes |-> {}, fills |-> {<<"c", "o", "m", "m", "i", "t", "_", "s", "h", "a">>}],
      [key |-> <<"r", "e", "v", "e", "r", "t">>, requires |-> "COMMIT_SHA", echoes |-> {<<"r", "e", "v", "e", "r", "t", "e", "d", "_", "c", "o", "m", "m", "i", "t">>}, fills |-> {<<"r", "e", "v", "e", "r", "t", "_", "c", "o", "m", "m", "i", "t", "_", "s", "h", "a">>}],
      [key |-> <<"c", "r", "e", "a", "t", "e", "_", "t", "a", "g">>, requires |-> "TAG_NAME", echoes |-> {<<"t", "a", "g", "_", "c", "r", "e", "a", "t", "e", "d">>}, fills |-> {}],
      [key |-> <<"d", "e", "l", "e", "t", "e", "_", "t", "a", "g">>, requires |-> "TAG_NAME", echoes |-> {<<"t", "a", "g", "_", "d", "e", "l", "e", "t", "e", "d">>}, fills |-> {}],
      [key |-> <<"l", "i", "s", "t", "_", "t", "a", "g", "s">>, requires |-> "", echoes |-> {}, fills |-> {<<"t", "a", "g", "s", "_", "l", "i", "s", "t">>, <<"t", "a", "g", "s", "_", "c", "o", "u", "n", "t">>}],
      [key |-> <<"p", "u", "s", "h", "_", "t", "a", "g">>, requires |-> "TAG_NAME", echoes |-> {<<"t", "a", "g", "_", "p", "u", "s", "h", "e", "d">>}, fills |-> {}] }

GitOperationKeys == {e.key : e \in GitOperationTable}

GitOperationValues == GitOperationKeys \cup {<<"C", "R", "E", "A", "T", "E">>, <<"i", "n", "v", "a", "l", "i", "d", "_", "o", "p", "e", "r", "a", "t", "i", "o", "n">>, NoneV}

\* os.environ for the git runner: the operation and the variable it needs
GitEnv(o, arg) ==
    LET e == CHOOSE x \in GitOperationTable : x.key = Lower(o)
        base == IF o # NoneV /\ Lower(o) \in GitOperationKeys /\ e.requires # "" /\ arg # ""
                THEN (e.requires :> arg) ELSE EmptyDir
    IN  IF o = NoneV THEN base ELSE ("OPERATION" :> o) @@ base

\* the outputs of a method that ran to its end
GitOutputs(e, env) ==
    [k \in e.echoes \cup e.fills \cup {KOperationStatus} |->
        IF k = KOperationStatus THEN "success"
        ELSE IF k \in e.echoes THEN env[e.requires]
        ELSE "git"]

\* git_operations.py: main, GitOperations() and run(); git_ok tells whether
\* every git command the method needs succeeds
GitRunner(env, git_ok) ==
    \E operation \in {Lower(EnvGet(env, "OPERATION", <<>>))} :
        LET idle == [files |-> fs_files, dirs |-> fs_dirs, outputs |-> EmptyDir, ret |-> NoneRec]
        IN  IF operation \notin GitOperationKeys
            THEN RunnerDone([runner |-> "git", env |-> env], idle, 1, <<>>, env_file)
            ELSE \E e \in {x \in GitOperationTable : x.key = operation} :
                     IF (e.requires # "" /\ EnvGet(env, e.requires, "") = "") \/ ~git_ok
                     THEN RunnerDone([runner |-> "git", env |-> env], idle, 1,
                                     <<operation>>, env_file)
                     ELSE \E o \in {GitOutputs(e, env)} :
                              RunnerDone([runner |-> "git", env |-> env],
                                         [idle EXCEPT !.outputs = o],
                                         0, <<operation>>, DotEnv(o))

RunGitOperations ==
    /\ processes < MaxProcesses
    /\ \E o \in GitOperationValues, arg \in {"", "n"}, git_ok \in BOOLEAN :
          \E env \in {GitEnv(o, arg)} : GitRunner(env, git_ok)

NextOps ==
    \/ CallCreateFile \/ CallReadFile \/ CallUpdateFile \/ CallDeleteFile
    \/ CallCopyFile \/ CallMoveFile \/ CallSearchFiles
    \/ RunFileOperations \/ RunGitOperations

SpecOps == InitOps /\ [][NextOps]_vars

\* ------------------------------------------------------------ C17
\* a step in which FileOperations.<method> was called
CallOf(method) ==
    /\ processes' # processes
    /\ "op" \in DOMAIN op_call'
    /\ op_call'.op = method

\* the bytes a text stands for under an encoding
Encoded(text, encoding) == IF encoding = "base64" THEN B64Decode(text) ELSE text

\* a text the encoding can turn into bytes
ValidFor(text, encoding) == encoding = "base64" => IsBase64(text)

C18_MoveAndCopy ==
    [][(CallOf("move_file") \/ CallOf("copy_file")) =>
        LET src == op_call'.file_path
            dst == op_call'.destination
        IN  /\ (src \notin DOMAIN fs_files \/ (dst \in DOMAIN fs_files /\ ~op_call'.overwrite))
                  => (~op_ret'.success /\ fs_files' = fs_files)
            /\ (op_ret'.success /\ op_call'.op = "move_file")
                  => /\ dst \in DOMAIN fs_files'
                     /\ fs_files'[dst] = fs_files[src]
                     /\ src \notin DOMAIN fs_files'
            /\ (op_ret'.success /\ op_call'.op = "copy_file")
                  => /\ dst \in DOMAIN fs_files'
                     /\ fs_files'[dst] = fs_files[src]
                     /\ src \in DOMAIN fs_files'
                     /\ fs_files'[src] = fs_files[src]]_vars

\* ------------------------------------------------------------ C19
\* a step in which a runtime runner ran
RunnerRan ==
    /\ processes' # processes
    /\ op_call' = NoneRec

\* the operation table of the runner that ran
TableOf(runner) == IF runner = "file" THEN FileOperationTable ELSE GitOperationKeys

\* the operation a runner looks up: OPERATION in lower case, the empty
\* string when the variable is unset
Requested(env) == Lower(EnvGet(env, "OPERATION", <<>>))

\* C19: a runtime runner (file or git) whose OPERATION, as the runner reads
\* it (lower-cased, empty when unset), is not a key of its operation table
\* exits with status 1, executes no operation, changes no file and writes no
\* output environment file.
C19_UnknownOperation ==
    [][(RunnerRan /\ Requested(run_env'.env) \notin TableOf(run_env'.runner)) =>
        /\ run_exit' = 1
        /\ executed' = <<>>
        /\ env_file' = env_file
        /\ fs_files' = fs_files
        /\ fs_dirs' = fs_dirs]_vars

\* the file runner started with OPERATION=invalid_operation where no output
\* file was left by an earlier job
C19_Witness ==
    /\ "runner" \in DOMAIN run_env
    /\ run_env.runner = "file"
    /\ "OPERATION" \in DOMAIN run_env.env
    /\ run_env.env["OPERATION"] = <<"i", "n", "v", "a", "l", "i", "d", "_", "o", "p", "e", "r", "a", "t", "i", "o", "n">>
    /\ run_exit = 1
    /\ executed = <<>>
    /\ env_file = NoneRec

\* =====================================================================
\* The parser on header, comment and blank lines
\* =====================================================================
\* raw lines of documents whose header lines come late and more than once
HeaderLinePool ==
    { <<>>,
      <<"#", " ", "c", ":">>,
      <<"M", "o", "d", "e", "l", ":", " ", "g", "i", "t", ".", "b">>,
      <<"M", "o", "d", "e", "l", ":", " ", "f", "s">>,
      <<"L", "a", "y", "e", "r", ":">>,
      <<"P", "a", "r", "a", "m", "e", "t", "e", "r", "s", ":">>,
      <<"-", " ", "a", ":">>,
      <<"-", " ", "o">>,
      <<"x">>,
      <<"O", "u", "t", "p", "u", "t", "s", ":">> }

\* FCMParser(path) about to be constructed on a document of MaxLines lines
InitParseHeaders ==
    /\ fcm_bytes \in {JoinLines(ls) : ls \in [1..MaxLines -> HeaderLinePool]}
    /\ fcm_content = NoneV
    /\ fcm_lines = <<>>
    /\ lineno = 0
    /\ current_section = NoneV
    /\ fcm_data = NoneRec
    /\ parser_pc = "new"
    /\ checksum = NoneV
    /\ seen = <<>>
    /\ GeneratorOff /\ VersionOff /\ OpsOff

SpecParseHeaders == InitParseHeaders /\ [][NextParse]_vars

\* ------------------------------------------------------------ claim C21
\* one of the five header-field lines, and the value it carries
IsHeaderLine(raw) == HeaderField(Strip(raw)) # ""

HeaderValue(raw) ==
    LET l == Strip(raw)
        colon == CHOOSE i \in 1..Len(l) : l[i] = ":" /\ \A j \in 1..(i - 1) : l[j] # ":"
    IN  Strip(SubSeq(l, colon + 1, Len(l)))

\* a section header stands above line i
AfterSectionStart(i) == \E h \in 1..(i - 1) : IsSectionHeader(fcm_lines[h])

\* C21 as stated: a header line that comes after a section start is
\* swallowed (nothing parsed changes, the header fields keep their values),
\* and a bullet line that comes before any section header is dropped.
C21_LateHeaderSwallowed ==
    [][LineStep =>
         /\ (IsHeaderLine(fcm_lines[lineno]) /\ AfterSectionStart(lineno))
               => (fcm_data' = fcm_data /\ current_section' = current_section)
         /\ (IsBullet(fcm_lines[lineno]) /\ ~AfterSectionStart(lineno))
               => (fcm_data' = fcm_data /\ current_section' = current_section)]_vars

\* C21 amended: a header line is taken as a header wherever it stands: after
\* a section start too it sets its field to its value (the text after the
\* first colon, trimmed) in place of the value parsed before, and leaves the
\* other fields, the collections and the current section as they were; a
\* bullet line that comes before any section header is dropped; no step
\* raises.
C21_LateHeaderOverwrites ==
    [][LineStep =>
         /\ parser_pc' # "raised"
         /\ IsHeaderLine(fcm_lines[lineno])
               => /\ fcm_data' = [fcm_data EXCEPT ![HeaderField(Strip(fcm_lines[lineno]))]
                                                     = HeaderValue(fcm_lines[lineno])]
                  /\ current_section' = current_section
         /\ (IsBullet(fcm_lines[lineno]) /\ ~AfterSectionStart(lineno))
               => (fcm_data' = fcm_data /\ current_section' = current_section)]_vars

\* Model: git.b, a section header, then Model: fs, which replaced the value;
\* and a bullet ahead of every section header that left nothing
C21_Witness ==
    /\ parser_pc = "done"
    /\ Len(fcm_lines) >= 4
    /\ IsBullet(fcm_lines[1])
    /\ fcm_lines[2] = <<"M", "o", "d", "e", "l", ":", " ", "g", "i", "t", ".", "b">>
    /\ IsSectionHeader(fcm_lines[3])
    /\ fcm_lines[4] = <<"M", "o", "d", "e", "l", ":", " ", "f", "s">>
    /\ fcm_data.model = <<"f", "s">>
    /\ fcm_data.outputs = <<>> /\ fcm_data.parameters = <<>>

\* ------------------------------------------------------------ claim C30
\* C30: the current-section pointer changes only on a section header line
\* (not a list item, ends in ':', starts with none of the five header
\* prefixes); blank lines, '#' comment lines, header-field lines, bullet
\* lines and every other line leave it as it was.
C30_SectionPointerFrame ==
    [][LineStep =>
         LET l == Strip(fcm_lines[lineno])
             blank == l = <<>>
             comment == StartsWith(l, <<"#">>)
             header == \E k \in 1..Len(HeaderPrefixes) : StartsWith(l, HeaderPrefixes[k][1])
             bullet == StartsWith(l, <<"-">>)
             colon == EndsWith(l, <<":">>)
         IN  /\ (blank \/ comment \/ header \/ bullet \/ ~colon)
                   => current_section' = current_section
             /\ current_section' # current_section
                   => (~bullet /\ colon /\ ~header)
             /\ (~blank /\ ~comment /\ ~header /\ ~bullet /\ colon)
                   => current_section' = Lower(SubSeq(l, 1, Len(l) - 1))]_vars

\* a parsed document with a section header followed by a blank line, a
\* comment ending in ':', a header line ending in ':' and a bullet ending in
\* ':', the pointer still at the section
C30_Witness ==
    /\ parser_pc = "done"
    /\ \E h \in 1..Len(fcm_lines) :
          /\ fcm_lines[h] = <<"P", "a", "r", "a", "m", "e", "t", "e", "r", "s", ":">>
          /\ \A i \in (h + 1)..Len(fcm_lines) : ~IsSectionHeader(fcm_lines[i])
          /\ \E i \in (h + 1)..Len(fcm_lines) : fcm_lines[i] = <<"-", " ", "a", ":">>
          /\ \E i \in (h + 1)..Len(fcm_lines) : fcm_lines[i] \in {<<"#", " ", "c", ":">>, <<"L", "a", "y", "e", "r", ":">>, <<>>}
    /\ current_section = <<"p", "a", "r", "a", "m", "e", "t", "e", "r", "s">>

\* =====================================================================
\* The generator on documents that share a job path, repeat a parameter
\* name, leave a requirement empty or name a domain no file can be named by
\* =====================================================================
ModeName == <<"m", "o", "d", "e">>

TemplatePool ==
    { Doc("p1", Git \o <<".", "a">>, <<"1">>, Git,
          <<ChoiceParam(ActionName, <<<<"y">>, <<"z">>>>), ScalarParam(ForceName, "boolean"),
            ScalarParam(ModeName, "string")>>,
          <<<<"curl">>, <<>>, <<"jq">>>>, <<"o">>),
      Doc("p2", Fs \o <<".", "a">>, <<"1">>, Fs,
          <<ScalarParam(ForceName, "boolean"), ScalarParam(Upper(ForceName), "string")>>,
          <<>>, <<>>),
      Doc("p3", Git \o <<".", "t">>, <<"1">>, Git, <<>>, <<<<"jq">>>>, <<"o">>),
      Doc("p4", <<"x", Nul, ".", "a">>, <<"1">>, Fs,
          <<ChoiceParam(ModeName, <<<<"c">>, <<"d">>>>)>>, <<>>, <<>>),
      Doc("p5", Git \o <<".", "a", Nul>>, <<"1">>, Git, <<>>, <<>>, <<>>),
      Doc("p6", Fs \o <<".", "t">>, <<"1">>, Fs,
          <<ChoiceParam(ModeName, <<<<"c">>, <<"d">>>>), ScalarParam(ModeName, "string")>>,
          <<<<>>>>, <<"o">>) }

\* main about to start on documents of TemplatePool
InitTemplates ==
    /\ fcm_files \in [1..NumDocs -> TemplatePool]
    /\ jobsDir \in {EmptyDir, OldWorld.jobs}
    /\ templatesDir \in {EmptyDir, OldWorld.templates}
    /\ includesFile = IF jobsDir = EmptyDir /\ templatesDir = EmptyDir
                      THEN NoneRec
                      ELSE [yaml |-> WriteYaml(IncludesDef(OldWorld.templates, OldWorld.jobs, 0))]
    /\ generated_files = <<>>
    /\ out = <<>>
    /\ pc = "idle"
    /\ idx = 1
    /\ runs = 0
    /\ now = 0
    /\ prevJobs = jobsDir
    /\ prevTemplates = templatesDir
    /\ root_exists \in BOOLEAN
    /\ dirs_made = FALSE
    /\ exit_code = Running
    /\ ParserOff /\ VersionOff /\ OpsOff

SpecTemplates == InitTemplates /\ [][Next]_vars

\* the loop iteration just taken, for any document
LoopStep == pc = "loop" /\ idx <= Len(fcm_files) /\ idx' = idx + 1

\* the iteration raised after the job fragment was written
RaisedInTemplate(doc) ==
    /\ ~Raises(doc)
    /\ doc.parameters # <<>>
    /\ HasNul(TemplateFile(RouteDomain(doc)))

\* ------------------------------------------------------------ claim C22
\* C22: every loop iteration for a document that reaches job emission
\* replaces the job fragment and the sidecar at the document's job path by
\* what the current document alone gives, whatever stood there before: every
\* job entry of the fragment is one of the current document, and nothing of
\* the earlier content is merged in.
C22_JobAndSidecarOverwritten ==
    [][(LoopStep /\ ~Raises(fcm_files[idx])) =>
         LET doc == fcm_files[idx]
             name == JobFile(RouteCapability(doc))
         IN  /\ jobsDir'[name] = [yaml |-> WriteYaml(JobDef(doc, FcmPath(idx), now))]
             /\ jobsDir'[SidecarName(name)] = [json |-> BridgeSync(doc, FcmPath(idx), now)]
             /\ \A k \in 1..Len(JobEntries(jobsDir'[name].yaml)) :
                    JobEntries(jobsDir'[name].yaml)[k].value.variables.FCM_MODEL = doc.model
             /\ \A n \in DOMAIN jobsDir' \ {name, SidecarName(name)} :
                    n \in DOMAIN jobsDir /\ jobsDir'[n] = jobsDir[n]]_vars

\* the fragment a.yml of the removed git.a v0 (one job, for choice x) was on
\* disk, the run processed git.a v1 with choices y and z, and the entry for
\* x is gone
C22_Witness ==
    /\ RunDone
    /\ prevJobs = OldWorld.jobs
    /\ fcm_files[1].text = "p1"
    /\ <<"a", ".", "y", "m", "l">> \in DOMAIN jobsDir
    /\ Len(JobEntries(OldWorld.jobs[<<"a", ".", "y", "m", "l">>].yaml)) = 1
    /\ Len(JobEntries(jobsDir[<<"a", ".", "y", "m", "l">>].yaml)) = 2
    /\ \A k \in 1..2 : JobEntries(jobsDir[<<"a", ".", "y", "m", "l">>].yaml)[k].value.variables.OPERATION # <<"x">>
    /\ jobsDir[<<"a", ".", "y", "m", "l">>] # OldWorld.jobs[<<"a", ".", "y", "m", "l">>]

\* ---------------------------------------------- reading a written template
\* the loop iteration just taken wrote the template of its document's domain
TemplateWritten ==
    /\ LoopStep
    /\ ~Raises(fcm_files[idx])
    /\ TemplateFile(RouteDomain(fcm_files[idx])) \in DOMAIN templatesDir' \ DOMAIN templatesDir

\* the entry stored under key in a written file
EntryOf(yaml, key) ==
    SelectSeq(yaml, LAMBDA it : it.kind = "map" /\ it.key = key)[1].value

\* the operation entry and the base entry of the template just written
WrittenOperation ==
    EntryOf(templatesDir'[TemplateFile(RouteDomain(fcm_files[idx]))].yaml,
            OperationKey(RouteDomain(fcm_files[idx])))

WrittenBase ==
    EntryOf(templatesDir'[TemplateFile(RouteDomain(fcm_files[idx]))].yaml,
            OperationBaseKey(RouteDomain(fcm_files[idx])))

\* the default a parameter's type gives its variable
DefaultOf(param) ==
    IF param.type = "boolean" THEN <<"false">>
    ELSE IF param.type = "choice" THEN param.choices[1]
    ELSE <<>>

\* ------------------------------------------------------------ claim C23
\* C23: the operation entry of a written template declares exactly one
\* variable per parameter of the model, named by the upper-cased parameter
\* name and holding the default of that parameter: the false token for a
\* boolean, the first choice for a choice, the empty string otherwise.
C23_OneVariablePerParameter ==
    [][TemplateWritten =>
         LET ps == fcm_files[idx].parameters
             vs == WrittenOperation.variables
         IN  /\ Len(vs) = Len(ps)
             /\ \A i \in 1..Len(ps) : vs[i] = <<Upper(ps[i].name), DefaultOf(ps[i])>>]_vars

\* ------------------------------------------------------------ claim C24
\* the existence check of one required tool
CheckLine(req) ==
    <<"which ">> \o req \o <<" || (echo \"">> \o req \o <<" not found, please install it\"; exit 1)">>

InterpreterCheck == <<"which python3 || (echo \"Python3 not found\"; exit 1)">>

InstallAndPath ==
    << <<"pip3 install --user -r scripts/requirements.txt">>,
       <<"export PATH=\"$HOME/.local/bin:$PATH\"">> >>

\* the pre-flight sequence with the requirement checks cs, for a routing domain
PreFlight(cs, domain) ==
    <<InterpreterCheck>> \o cs \o (IF domain = Git THEN GitSetup ELSE <<>>) \o InstallAndPath

\* C24 as stated: the pre-flight sequence of a written template is the
\* interpreter check, one existence check for every requirements entry in
\* declared order, the git identity and push-remote steps exactly when the
\* domain is git, the dependency install, and the PATH step.
C24_CheckPerEntry ==
    [][TemplateWritten =>
         LET reqs == fcm_files[idx].interface.requirements
         IN  WrittenBase.before_script =
                 PreFlight([i \in 1..Len(reqs) |-> CheckLine(reqs[i])],
                           RouteDomain(fcm_files[idx]))]_vars

\* C24 amended: the same order, with one existence check for every
\* non-empty entry of the requirements list in declared order and none for
\* an empty entry.
C24_CheckPerNonEmptyEntry ==
    [][TemplateWritten =>
         LET reqs == SelectSeq(fcm_files[idx].interface.requirements, LAMBDA q : q # <<>>)
         IN  WrittenBase.before_script =
                 PreFlight([i \in 1..Len(reqs) |-> CheckLine(reqs[i])],
                           RouteDomain(fcm_files[idx]))]_vars

\* the template of domain git written for requirements curl, an empty entry
\* and jq: nine steps, the checks of curl and jq second and third, and the
\* template of domain fs written for a list of one empty entry: three steps
C24_Witness ==
    /\ RunDone
    /\ prevTemplates = EmptyDir
    /\ fcm_files[1].text = "p1" /\ fcm_files[2].text = "p6"
    /\ LET git == EntryOf(templatesDir[TemplateFile(Git)].yaml, OperationBaseKey(Git)).before_script
           fs == EntryOf(templatesDir[TemplateFile(Fs)].yaml, OperationBaseKey(Fs)).before_script
       IN  /\ Len(git) = 9
           /\ git[2] = CheckLine(<<"curl">>) /\ git[3] = CheckLine(<<"jq">>)
           /\ git[4] = GitSetup[1] /\ git[8] = InstallAndPath[1]
           /\ Len(fs) = 3
           /\ fs[1] = InterpreterCheck /\ fs[2] = InstallAndPath[1]

\* ------------------------------------------------------------ claim C25
\* C25: the operation entry of a written template holds the artifacts block
\* (the dotenv report operation_outputs.env, kept one hour) exactly when the
\* document the template was written for declares at least one output.
C25_ArtifactsIffOutputs ==
    [][TemplateWritten =>
         /\ "artifacts" \in DOMAIN WrittenOperation <=> Len(fcm_files[idx].outputs) >= 1
         /\ "artifacts" \in DOMAIN WrittenOperation =>
                WrittenOperation.artifacts =
                    [reports |-> [dotenv |-> "operation_outputs.env"], expire_in |-> "1 hour"]]_vars

\* one run wrote the template of git for a document with an output and the
\* template of fs for a document without: the first has the block, the
\* second has not
C25_Witness ==
    /\ RunDone
    /\ prevTemplates = EmptyDir
    /\ fcm_files[1].text = "p1" /\ fcm_files[2].text = "p2"
    /\ fcm_files[1].outputs # <<>> /\ fcm_files[2].outputs = <<>>
    /\ "artifacts" \in DOMAIN EntryOf(templatesDir[TemplateFile(Git)].yaml, OperationKey(Git))
    /\ "artifacts" \notin DOMAIN EntryOf(templatesDir[TemplateFile(Fs)].yaml, OperationKey(Fs))

\* ------------------------------------------------------------ claim C26
\* the step just taken is the manifest step
ManifestStep == pc = "loop" /\ idx > Len(fcm_files) /\ pc' = "idle"

\* the include list of a written manifest
ListOf(file) == SelectSeq(file.yaml, LAMBDA it : it.kind = "map")[1].value.list

\* item names a fragment: a .yml file of templates/ or of jobs/
NamesFragment(item) ==
    /\ item.local[1] \in {".gitlab-ci/templates/", ".gitlab-ci/jobs/"}
    /\ EndsWith(Tail(item.local), YmlExt)
    /\ ~EndsWith(Tail(item.local), SyncExt)
    /\ item.local # <<".gitlab-ci/">> \o IncludesPath.name

\* C26: every item of the manifest names a .yml fragment of templates/ or
\* jobs/, never the manifest itself and never a .bridge-sync sidecar; and a
\* manifest step taken while templates/ and jobs/ hold the files they held at
\* the manifest step before it writes the include list that step wrote.
C26_ManifestListsFragmentsOnly ==
    [][ManifestStep =>
         /\ \A k \in 1..Len(ListOf(includesFile')) : NamesFragment(ListOf(includesFile')[k])
         /\ (runs >= 1 /\ DOMAIN jobsDir = DOMAIN prevJobs
                       /\ DOMAIN templatesDir = DOMAIN prevTemplates)
               => ListOf(includesFile') = ListOf(includesFile)]_vars

\* a second run over the same files: sidecars stand in jobs/, the manifest
\* lists the template and the fragments and is as long as the fragments are many
C26_Witness ==
    /\ SecondRunDone
    /\ DOMAIN jobsDir = DOMAIN prevJobs /\ DOMAIN templatesDir = DOMAIN prevTemplates
    /\ \E n \in DOMAIN jobsDir : EndsWith(n, SyncExt)
    /\ Cardinality(TemplateFiles) >= 1 /\ Cardinality(JobFiles) >= 2
    /\ Len(ManifestList) = Cardinality(TemplateFiles) + Cardinality(JobFiles)
    /\ Len(ManifestList) < Cardinality(DOMAIN jobsDir) + Cardinality(DOMAIN templatesDir)

\* ------------------------------------------------------------ claim C27
\* C27: the loop iteration for a document without parameters writes the
\* document's job fragment and sidecar and leaves templates/ as it was, also
\* when the domain has no template; a template is written only in the
\* iteration of a document with at least one parameter, and from that
\* document.
C27_TemplateNeedsParameters ==
    [][(LoopStep /\ ~Raises(fcm_files[idx])) =>
         LET doc == fcm_files[idx]
             name == JobFile(RouteCapability(doc))
         IN  /\ doc.parameters = <<>> =>
                   /\ templatesDir' = templatesDir
                   /\ jobsDir'[name].yaml = WriteYaml(JobDef(doc, FcmPath(idx), now))
                   /\ SidecarName(name) \in DOMAIN jobsDir'
                   /\ Len(generated_files') = Len(generated_files) + 2
             /\ templatesDir' # templatesDir =>
                   /\ Len(doc.parameters) >= 1
                   /\ templatesDir' =
                         Put(templatesDir, TemplateFile(RouteDomain(doc)),
                             [yaml |-> WriteYaml(TemplateDef(doc, RouteDomain(doc), now))])]_vars

\* git.t without parameters came first and git.a with parameters second, on
\* empty directories: t.yml and its sidecar are on disk and the template of
\* git is the one of git.a
C27_Witness ==
    /\ RunDone
    /\ prevTemplates = EmptyDir /\ prevJobs = EmptyDir
    /\ fcm_files[1].text = "p3" /\ fcm_files[1].parameters = <<>>
    /\ fcm_files[2].text = "p1"
    /\ {<<"t", ".", "y", "m", "l">>, SidecarName(<<"t", ".", "y", "m", "l">>)} \subseteq DOMAIN jobsDir
    /\ DOMAIN templatesDir = {TemplateFile(Git)}
    /\ EntryOf(templatesDir[TemplateFile(Git)].yaml, OperationKey(Git)).variables
          = TemplateVariables(fcm_files[2].parameters, <<>>)

\* ------------------------------------------------------------ claim C28
\* the documents of the list that reach job emission
Emitting == {i \in 1..Len(fcm_files) : ~Raises(fcm_files[i])}

\* i is the last document of its capability to reach job emission
LastOfCapability(i) ==
    \A j \in Emitting :
        RouteCapability(fcm_files[j]) = RouteCapability(fcm_files[i]) => j <= i

\* the fragment and the sidecar at the job path of document i are the two
\* files one emission of document i writes
BothFrom(i) ==
    LET name == JobFile(RouteCapability(fcm_files[i]))
    IN  \E t \in 0..MaxClock :
           /\ jobsDir[name] = [yaml |-> WriteYaml(JobDef(fcm_files[i], FcmPath(i), t))]
           /\ jobsDir[SidecarName(name)] = [json |-> BridgeSync(fcm_files[i], FcmPath(i), t)]

\* C28: documents with the same capability segment write to one job path
\* whatever their domains, and after a run the fragment and the sidecar at
\* that path are both those of the document of that capability processed
\* last, never one of each document.
C28_LastOfCapabilityOwnsBoth ==
    RunDone =>
        \A i \in Emitting :
            /\ \A j \in Emitting :
                  RouteCapability(fcm_files[j]) = RouteCapability(fcm_files[i])
                     => /\ Path("jobs", JobFile(RouteCapability(fcm_files[j]))) \in Range(generated_files)
                        /\ JobFile(RouteCapability(fcm_files[j])) = JobFile(RouteCapability(fcm_files[i]))
            /\ LastOfCapability(i) => BothFrom(i)

\* git.a then fs.a: one fragment a.yml, whose header and sidecar name fs.a
C28_Witness ==
    /\ RunDone
    /\ fcm_files[1].model = Git \o <<".", "a">> /\ fcm_files[2].model = Fs \o <<".", "a">>
    /\ RouteDomain(fcm_files[1]) # RouteDomain(fcm_files[2])
    /\ JobFiles = {<<"a", ".", "y", "m", "l">>}
    /\ jobsDir[SidecarName(<<"a", ".", "y", "m", "l">>)].json.model = Fs \o <<".", "a">>
    /\ jobsDir[<<"a", ".", "y", "m", "l">>].yaml[3].text = <<"#", " Model: ">> \o Fs \o <<".", "a", " v", "1">>
    /\ BothFrom(2) /\ ~BothFrom(1)

\* ------------------------------------------------------------ claim C29
\* the manifest item of the job fragment of document i
JobItem(i) == [local |-> <<".gitlab-ci/jobs/">> \o JobFile(RouteCapability(fcm_files[i]))]

\* C29: the loop iteration of a document that fails during template
\* emission leaves the job fragment and the sidecar it wrote on disk, writes
\* no template and reports the error; the manifest step at the end of the run
\* finds both files still there and lists the fragment.
C29_NoRollback ==
    [][/\ (LoopStep /\ RaisedInTemplate(fcm_files[idx])) =>
            LET doc == fcm_files[idx]
                name == JobFile(RouteCapability(doc))
            IN  /\ {name, SidecarName(name)} \subseteq DOMAIN jobsDir'
                /\ jobsDir'[name] = [yaml |-> WriteYaml(JobDef(doc, FcmPath(idx), now))]
                /\ jobsDir'[SidecarName(name)] = [json |-> BridgeSync(doc, FcmPath(idx), now)]
                /\ templatesDir' = templatesDir
                /\ out'[Len(out')] = ErrorEvent(idx)
       /\ ManifestStep =>
            \A i \in 1..Len(fcm_files) :
                RaisedInTemplate(fcm_files[i]) =>
                    /\ {JobFile(RouteCapability(fcm_files[i])),
                        SidecarName(JobFile(RouteCapability(fcm_files[i])))} \subseteq DOMAIN jobsDir'
                    /\ JobItem(i) \in Range(ListOf(includesFile'))]_vars

\* the first document failed in template emission on empty directories: its
\* fragment a.yml and sidecar are on disk after the run, the manifest lists
\* a.yml, and there is no template of its domain
C29_Witness ==
    /\ RunDone
    /\ prevJobs = EmptyDir /\ prevTemplates = EmptyDir
    /\ RaisedInTemplate(fcm_files[1])
    /\ fcm_files[2].text = "p3"
    /\ ErrorEvent(1) \in Range(out)
    /\ jobsDir[SidecarName(<<"a", ".", "y", "m", "l">>)].json.model = fcm_files[1].model
    /\ jobsDir[<<"a", ".", "y", "m", "l">>].yaml = WriteYaml(JobDef(fcm_files[1], FcmPath(1), 0))
    /\ JobItem(1) \in Range(ManifestList)
    /\ templatesDir = EmptyDir
====
